---- MODULE Spec2Model ----
(***************************************************************************)
(* Model of the connection multiplexer of nexigon-multiplex                *)
(* (crates/libs/nexigon-multiplex/src/lib.rs): two endpoints, each running *)
(* one Connection over one direction-preserving message transport, and the *)
(* Sender / Receiver halves of the channels opened over them.              *)
(*                                                                         *)
(* Byte counts are scaled: the credit constants of the source (128 frames, *)
(* 16 KiB, the 512 byte write threshold, the caps of 1024 frames and       *)
(* 1 GiB) keep their names and their order relations but are given small   *)
(* values, so that exhausting and replenishing credit happens within a few *)
(* frames.  Durations are abstracted: an Option<Instant> or                *)
(* Option<Duration> is modelled by whether it is Some, and a comparison of *)
(* elapsed time against the round-trip time is a nondeterministic choice.  *)
(***************************************************************************)
EXTENDS Integers, Sequences, FiniteSets, TLC

(***************************************************************************)
(* Bounds of the model.                                                    *)
(***************************************************************************)
MaxOpens == 1        \* Spec: open() calls
MaxPings == 1        \* Spec: keepalive timer ticks (at endpoint A)
MaxBytes == 2        \* Spec: bytes the senders are asked to write
MaxCloses == 1       \* Spec, SpecData: poll_close calls
MaxBuf == 2          \* longest buffer handed to poll_write / poll_read
ConnMaxOpens == 2    \* SpecConn: open() calls
ConnMaxPings == 2    \* SpecConn: keepalive timer ticks per endpoint
PairMaxCloses == 1   \* SpecPair: poll_close calls
DataMaxBytes == 5    \* SpecData: bytes the senders are asked to write
HalfMaxBytes == 2    \* SpecHalf: bytes the senders are asked to write
WriteMaxBuf == 3     \* SpecWrite: longest buffer handed to poll_write
CloseMaxCloses == 2  \* SpecClose: poll_close calls
CloseMaxBytes == 3   \* SpecClose: bytes the sender is asked to write
WriteMaxBytes == 5   \* SpecWrite: bytes the sender is asked to write, an empty write counting as one
MaxIds == 2          \* channel ids per endpoint
MaxPeerFrames == 3   \* SpecPeer: frames the arbitrary peer sends
MaxPeerLen == 5      \* SpecPeer: longest payload the arbitrary peer sends
MaxProtoFrames == 3  \* SpecProto: frames the arbitrary peer sends
MaxRawLen == 26      \* SpecFrames: longest raw message handed to Frame::parse

(***************************************************************************)
(* Program constants (scaled, see above).                                  *)
(***************************************************************************)
INITIAL_FRAME_CREDIT == 2
INITIAL_BYTE_CREDIT == 4
WRITE_THRESHOLD == 2
CHANNEL_MAX_FRAME_CREDIT == 4
CHANNEL_MAX_BYTE_CREDIT == 8
MIN_FRAME_SIZE == 9
NULL == 0

Endpoints == {"A", "B"}

Peer(e) == IF e = "A" THEN "B" ELSE "A"

Min(a, b) == IF a < b THEN a ELSE b

RECURSIVE SumSeq(_)
SumSeq(s) == IF s = <<>> THEN 0 ELSE Head(s) + SumSeq(Tail(s))

(***************************************************************************)
(* Frames.  A frame is a record with the fields of the wire table; fields  *)
(* a variant does not carry are NULL / empty.  `n` is not on the wire: it  *)
(* is the position at which the frame was enqueued on its connection's     *)
(* outbound queue, kept to state the ordering properties.                  *)
(***************************************************************************)
Frame(tag, receiver_id, sender_id, frame_credit, byte_credit, payload) ==
    [tag |-> tag, receiver_id |-> receiver_id, sender_id |-> sender_id,
     frame_credit |-> frame_credit, byte_credit |-> byte_credit,
     payload |-> payload, n |-> 0]

FrameHello == Frame("Hello", NULL, NULL, 0, 0, <<>>)
FrameClose == Frame("Close", NULL, NULL, 0, 0, <<>>)
FramePing == Frame("Ping", NULL, NULL, 0, 0, <<>>)
FramePong == Frame("Pong", NULL, NULL, 0, 0, <<>>)
FrameChannelRequest(sender_id, fc, bc) ==
    Frame("ChannelRequest", NULL, sender_id, fc, bc, <<>>)
FrameChannelAcceptSwapped(receiver_id, sender_id, fc, bc) ==
    Frame("ChannelAccept", sender_id, receiver_id, fc, bc, <<>>)
FrameChannelAccept(receiver_id, sender_id, fc, bc) ==
    Frame("ChannelAccept", receiver_id, sender_id, fc, bc, <<>>)
FrameChannelReject(receiver_id, reason) ==
    Frame("ChannelReject", receiver_id, NULL, 0, 0, reason)
FrameChannelData(receiver_id, payload) ==
    Frame("ChannelData", receiver_id, NULL, 0, 0, payload)
FrameChannelAdjust(receiver_id, fc, bc) ==
    Frame("ChannelAdjust", receiver_id, NULL, fc, bc, <<>>)
FrameChannelClose(receiver_id) ==
    Frame("ChannelClose", receiver_id, NULL, 0, 0, <<>>)
FrameChannelClosed(receiver_id) ==
    Frame("ChannelClosed", receiver_id, NULL, 0, 0, <<>>)

(* The bytes of a ChannelData frame: tag, 8 bytes of receiver id, payload. *)
(* Header bytes are written as negative numbers to keep them apart from    *)
(* payload bytes, which are positive.                                      *)
ToBytes(id) == <<-100, -100, -100, -100, -100, -100, -100, -100 - id>>

DataFrameBytes(f) == <<-19>> \o ToBytes(f.receiver_id) \o f.payload

VARIABLES
    frame_q,          \* [e]: outbound frame queue (frame_tx / frame_rx)
    cmd_q,            \* [e]: command queue (cmd_tx / cmd_rx)
    transport,        \* [e]: messages e handed to the transport, not yet taken by Peer(e)
    conn,             \* [e]: the fields of Connection
    channels,         \* [e]: Connection::channels, local id -> ChannelHandle
    sender_shared,    \* [<<e, id>>]: SenderShared
    receiver_shared,  \* [<<e, id>>]: ReceiverShared
    senders,          \* [<<e, id>>]: the Sender half and the outcome of its last poll
    receivers,        \* [<<e, id>>]: the Receiver half and the outcome of its last poll
    requests,         \* [e]: ChannelRequest handles delivered and not yet handled
    enq,              \* [e]: history, number of frames ever enqueued on frame_q[e]
    hist              \* what the environment may still do: opens, timer ticks, bytes,
                      \* closes, and the endpoints whose tasks write and read

vars == <<frame_q, cmd_q, transport, conn, channels, sender_shared,
          receiver_shared, senders, receivers, requests, enq, hist>>

Ids == 1 .. MaxIds

(***************************************************************************)
(* Constructors.                                                           *)
(***************************************************************************)
NewConnection ==
    [exhausted |-> FALSE, closed |-> FALSE, next_channel_id |-> 1,
     pending_requests |-> {}, last_ping |-> FALSE, smoothened_rtt |-> FALSE,
     pong_received |-> TRUE, frames_sent |-> 0, frames_received |-> 0,
     \* observation: outcome of the last dispatch, and the sender ids of the
     \* ChannelRequest / ChannelAccept frames enqueued so far, in order
     result |-> "none", ids |-> <<>>,
     \* observation: what each open() was resolved with, by the local id it
     \* was assigned; the sender ids of the requests delivered as events; the
     \* ChannelAccept / ChannelReject frames enqueued in answer
     results |-> <<>>, delivered |-> <<>>, responses |-> <<>>,
     \* observation: the frame dispatched last
     last |-> [tag |-> "none", receiver_id |-> NULL],
     \* the Connection value has been dropped
     dropped |-> FALSE,
     \* the open() calls made on this connection's refs, in call order: what
     \* each awaiter has got ("Waiting", "Channel", "Rejected", "Closed"), or
     \* "Dropped" once the future was dropped unresolved; and, by local id,
     \* the call whose result_tx was stored in pending_requests
     calls |-> <<>>, notifier |-> <<>>]

NewSenderShared(initial_frame_credit, initial_byte_credit) ==
    [closed |-> FALSE, waker |-> FALSE,
     remaining_frame_credit |-> initial_frame_credit,
     remaining_byte_credit |-> initial_byte_credit,
     used_frame_credit |-> 0, used_byte_credit |-> 0]

(* The credit parameters of a receiver: where the two maxima start, their  *)
(* caps, and the value at which a u32 wraps.  Scaled is what the channel   *)
(* specifications run with.  SourceCredits holds the values of the source, *)
(* bytes counted in KiB (16 KiB, 1 GiB and 2^32 bytes are 16, 2^20 and     *)
(* 2^22 KiB); the doubling, the halving and the comparisons of the maxima  *)
(* commute with that change of unit.                                       *)
Scaled ==
    [initial_frame |-> INITIAL_FRAME_CREDIT, initial_byte |-> INITIAL_BYTE_CREDIT,
     max_frame |-> CHANNEL_MAX_FRAME_CREDIT, max_byte |-> CHANNEL_MAX_BYTE_CREDIT,
     wrap |-> 4 * 1024 * 1024]

SourceCredits ==
    [initial_frame |-> 128, initial_byte |-> 16,
     max_frame |-> 1024, max_byte |-> 1024 * 1024,
     wrap |-> 4 * 1024 * 1024]

NewReceiverSharedAt(cr) ==
    [buffer |-> <<>>, closed |-> FALSE, waker |-> FALSE,
     max_frame_credit |-> cr.initial_frame,
     max_byte_credit |-> cr.initial_byte,
     remaining_frame_credit |-> cr.initial_frame,
     remaining_byte_credit |-> cr.initial_byte,
     \* history: credit granted to the peer (initial plus every ChannelAdjust
     \* enqueued) minus what the reader consumed
     granted_frames |-> cr.initial_frame,
     granted_bytes |-> cr.initial_byte]

NewReceiverShared == NewReceiverSharedAt(Scaled)

NewSender(remote_id) ==
    [alive |-> TRUE, remote_id |-> remote_id, pending |-> <<>>, has_pending |-> FALSE,
     \* observation: outcome of the last poll, wake-ups delivered, bytes accepted
     result |-> "none", woken |-> FALSE, written |-> 0]

NewReceiver(remote_id) ==
    [alive |-> TRUE, remote_id |-> remote_id, pending |-> <<>>, has_pending |-> FALSE,
     offset |-> 0,
     \* observation: outcome of the last poll, wake-ups delivered, bytes returned
     result |-> "none", chunk_result |-> "none", woken |-> FALSE, log |-> <<>>]

(* Connection::new on both endpoints: Hello is enqueued at construction. *)
ConstructedSilent ==
    /\ frame_q = [e \in Endpoints |-> <<>>]
    /\ cmd_q = [e \in Endpoints |-> <<>>]
    /\ transport = [e \in Endpoints |-> <<>>]
    /\ conn = [e \in Endpoints |-> NewConnection]
    /\ channels = [e \in Endpoints |-> <<>>]
    /\ sender_shared = <<>>
    /\ receiver_shared = <<>>
    /\ senders = <<>>
    /\ receivers = <<>>
    /\ requests = [e \in Endpoints |-> {}]
    /\ enq = [e \in Endpoints |-> 0]

Constructed ==
    /\ frame_q = [e \in Endpoints |-> << [FrameHello EXCEPT !.n = 1] >>]
    /\ cmd_q = [e \in Endpoints |-> <<>>]
    /\ transport = [e \in Endpoints |-> <<>>]
    /\ conn = [e \in Endpoints |-> NewConnection]
    /\ channels = [e \in Endpoints |-> <<>>]
    /\ sender_shared = <<>>
    /\ receiver_shared = <<>>
    /\ senders = <<>>
    /\ receivers = <<>>
    /\ requests = [e \in Endpoints |-> {}]
    /\ enq = [e \in Endpoints |-> 1]

Init ==
    /\ Constructed
    /\ hist = [opens |-> MaxOpens,
               pings |-> [e \in Endpoints |-> IF e = "A" THEN MaxPings ELSE 0],
               bytes |-> MaxBytes, closes |-> MaxCloses,
               writers |-> {"A"}, readers |-> {"B"}, peer |-> 0]

(***************************************************************************)
(* Helpers on maps.                                                        *)
(***************************************************************************)
Put(f, k, v) == [x \in (DOMAIN f) \cup {k} |-> IF x = k THEN v ELSE f[x]]

Known(e, id) == id \in DOMAIN channels[e]

(***************************************************************************)
(* ConnectionRef::send_frame: append to the unbounded outbound queue.      *)
(***************************************************************************)
PushBack(q, fs, base) ==
    q \o [i \in 1 .. Len(fs) |-> [fs[i] EXCEPT !.n = base + i]]

send_frames(e, fs) ==
    /\ frame_q' = [frame_q EXCEPT ![e] = PushBack(@, fs, enq[e])]
    /\ enq' = [enq EXCEPT ![e] = @ + Len(fs)]

(* The frame the outbound loop hands to the transport next. *)
NextOutboundNewest(q) == q[Len(q)]

NextOutbound(q) == Head(q)

RestOutbound(q) == Tail(q)

(***************************************************************************)
(* Wakers: shared.waker.take() followed by wake().                         *)
(***************************************************************************)
WakeReader(rs) == [rs EXCEPT !.waker = FALSE]

WakeWriterLost(ss) == ss

WakeWriter(ss) == [ss EXCEPT !.waker = FALSE]

(* The task of a half runs again when its registered waker was taken.      *)
Woken(half, before, after) ==
    [half EXCEPT !.woken = @ \/ (before.waker /\ ~after.waker)]

(***************************************************************************)
(* What the awaiter of open() holds: nothing yet, the Channel, or the      *)
(* rejection with the peer's reason.                                       *)
(***************************************************************************)
OpenPending == [kind |-> "Pending", local_id |-> NULL, remote_id |-> NULL, reason |-> <<>>]

OpenedChannelSwapped(local_id, remote_id) ==
    [kind |-> "Channel", local_id |-> remote_id, remote_id |-> local_id, reason |-> <<>>]

OpenedChannel(local_id, remote_id) ==
    [kind |-> "Channel", local_id |-> local_id, remote_id |-> remote_id, reason |-> <<>>]

OpenRejected(frame) ==
    [kind |-> "Rejected", local_id |-> NULL, remote_id |-> NULL, reason |-> frame.payload]

(* An answer to a channel request, as recorded in `responses`. *)
Response(frame) ==
    [tag |-> frame.tag, receiver_id |-> frame.receiver_id, reason |-> frame.payload]

(***************************************************************************)
(* Connection::reserve_channel_id                                          *)
(***************************************************************************)
ReserveChannelIdStuck(c) == [id |-> c.next_channel_id, conn |-> c]

ReserveChannelId(c) ==
    [id |-> c.next_channel_id,
     conn |-> [c EXCEPT !.next_channel_id = @ + 1]]

(***************************************************************************)
(* Connection::make_channel with Channel::new: fresh shared state, handle  *)
(* inserted under local_id; `kept` is whether the Channel survives the     *)
(* handler (it is dropped when nobody takes it).                           *)
(***************************************************************************)
make_channel_unmapped(e, local_id, remote_id, kept) ==
    /\ channels' = channels
    /\ sender_shared' = Put(sender_shared, <<e, local_id>>,
           NewSenderShared(INITIAL_FRAME_CREDIT, INITIAL_BYTE_CREDIT))
    /\ receiver_shared' = Put(receiver_shared, <<e, local_id>>, NewReceiverShared)
    /\ senders' = Put(senders, <<e, local_id>>,
           [NewSender(remote_id) EXCEPT !.alive = kept])
    /\ receivers' = Put(receivers, <<e, local_id>>,
           [NewReceiver(remote_id) EXCEPT !.alive = kept])

make_channel(e, local_id, remote_id, kept) ==
    /\ channels' = [channels EXCEPT ![e] =
           Put(@, local_id, [local_id |-> local_id, remote_id |-> remote_id])]
    /\ sender_shared' = Put(sender_shared, <<e, local_id>>,
           NewSenderShared(INITIAL_FRAME_CREDIT, INITIAL_BYTE_CREDIT))
    /\ receiver_shared' = Put(receiver_shared, <<e, local_id>>, NewReceiverShared)
    /\ senders' = Put(senders, <<e, local_id>>,
           [NewSender(remote_id) EXCEPT !.alive = kept])
    /\ receivers' = Put(receivers, <<e, local_id>>,
           [NewReceiver(remote_id) EXCEPT !.alive = kept])

NoChannelChange ==
    UNCHANGED <<channels, sender_shared, receiver_shared, senders, receivers>>

(***************************************************************************)
(* ConnectionRef::open: submit an OpenChannel command.                     *)
(***************************************************************************)
Open(e) ==
    /\ hist.opens > 0
    /\ hist' = [hist EXCEPT !.opens = @ - 1]
    /\ IF conn[e].dropped
       THEN \* send_cmd fails, the command and its result_tx are dropped
            /\ conn' = [conn EXCEPT ![e].calls = Append(@, "Closed")]
            /\ UNCHANGED cmd_q
       ELSE /\ conn' = [conn EXCEPT ![e].calls = Append(@, "Waiting")]
            /\ cmd_q' = [cmd_q EXCEPT ![e] = Append(@,
                   [type |-> "OpenChannel", call |-> Len(conn[e].calls) + 1,
                    frame |-> FrameChannelRequest(NULL, INITIAL_FRAME_CREDIT,
                                                  INITIAL_BYTE_CREDIT)])]
    /\ UNCHANGED <<frame_q, transport, channels, sender_shared,
                   receiver_shared, senders, receivers, requests, enq>>

(* Dropping the future of an unresolved open() drops its result_rx. *)
DropOpen(e, i) ==
    /\ i \in DOMAIN conn[e].calls
    /\ conn[e].calls[i] = "Waiting"
    /\ conn' = [conn EXCEPT ![e].calls[i] = "Dropped"]
    /\ UNCHANGED <<frame_q, cmd_q, transport, channels, sender_shared,
                   receiver_shared, senders, receivers, requests, enq, hist>>

(* Dropping the Connection drops cmd_rx and frame_rx with what is queued   *)
(* on them, pending_requests and channels: every result_tx still held is   *)
(* dropped and its awaiter gets Closed.                                    *)
CloseWaitingNone(calls) == calls

CloseWaiting(calls) ==
    [i \in DOMAIN calls |-> IF calls[i] = "Waiting" THEN "Closed" ELSE calls[i]]

DropConnection(e) ==
    /\ e \in hist.drop
    /\ ~conn[e].dropped
    /\ conn' = [conn EXCEPT ![e].dropped = TRUE,
                            ![e].calls = CloseWaiting(@),
                            ![e].pending_requests = {}]
    /\ cmd_q' = [cmd_q EXCEPT ![e] = <<>>]
    /\ frame_q' = [frame_q EXCEPT ![e] = <<>>]
    /\ channels' = [channels EXCEPT ![e] = <<>>]
    /\ UNCHANGED <<transport, sender_shared, receiver_shared, senders,
                   receivers, requests, enq, hist>>

(***************************************************************************)
(* ChannelRequest::accept / reject / drop.                                 *)
(***************************************************************************)
AcceptUnhandled(e, r) ==
    /\ r \in requests[e]
    /\ cmd_q' = [cmd_q EXCEPT ![e] = Append(@,
           [type |-> "AcceptChannel",
            frame |-> FrameChannelAccept(r, NULL, INITIAL_FRAME_CREDIT, INITIAL_BYTE_CREDIT)])]
    /\ UNCHANGED <<frame_q, transport, conn, channels, sender_shared,
                   receiver_shared, senders, receivers, requests, enq, hist>>

Accept(e, r) ==
    /\ r \in requests[e]
    /\ requests' = [requests EXCEPT ![e] = @ \ {r}]
    /\ cmd_q' = [cmd_q EXCEPT ![e] = Append(@,
           [type |-> "AcceptChannel",
            frame |-> FrameChannelAccept(r, NULL, INITIAL_FRAME_CREDIT, INITIAL_BYTE_CREDIT)])]
    /\ UNCHANGED <<frame_q, transport, conn, channels, sender_shared,
                   receiver_shared, senders, receivers, enq, hist>>

mut_reject(e, r, reason) ==
    /\ r \in requests[e]
    /\ requests' = [requests EXCEPT ![e] = @ \ {r}]
    /\ send_frames(e, <<FrameChannelReject(r, reason)>>)
    /\ conn' = [conn EXCEPT ![e].responses =
           Append(@, Response(FrameChannelReject(r, reason)))]
    /\ UNCHANGED <<cmd_q, transport, channels, sender_shared,
                   receiver_shared, senders, receivers, hist>>

(* The reasons an application gives when it rejects. *)
Reasons == {<<7>>}

Reject(e, r) == \E reason \in Reasons : mut_reject(e, r, reason)

(* Drop for ChannelRequest: an unhandled request is rejected with an empty *)
(* reason.                                                                 *)
DropRequest(e, r) == mut_reject(e, r, <<>>)

(***************************************************************************)
(* Connection::handle_cmd                                                  *)
(***************************************************************************)
set_sender_id(frame, id) == [frame EXCEPT !.sender_id = id]

HandleCmd(e) ==
    /\ ~conn[e].dropped
    /\ cmd_q[e] # <<>>
    /\ LET cmd == Head(cmd_q[e])
           r == ReserveChannelId(conn[e])
           local_id == r.id
           frame == set_sender_id(cmd.frame, local_id)
           c == [r.conn EXCEPT !.ids = Append(@, frame.sender_id)]
       IN  /\ cmd_q' = [cmd_q EXCEPT ![e] = Tail(@)]
           /\ send_frames(e, <<frame>>)
           /\ IF cmd.type = "OpenChannel"
              THEN /\ conn' = [conn EXCEPT ![e] =
                          [c EXCEPT !.pending_requests = @ \cup {local_id},
                                    !.notifier = Put(@, local_id, cmd.call),
                                    !.results = Put(@, local_id, OpenPending)]]
                   /\ NoChannelChange
              ELSE /\ conn' = [conn EXCEPT ![e] =
                          [c EXCEPT !.responses = Append(@, Response(frame))]]
                   /\ make_channel(e, local_id, cmd.frame.receiver_id, TRUE)
    /\ UNCHANGED <<transport, requests, hist>>

(***************************************************************************)
(* Connection::ping and the keepalive timer.                               *)
(***************************************************************************)
PingDueAlways(e) == TRUE

PingDue(e) == conn[e].pong_received

Ping(e) ==
    /\ ~conn[e].dropped
    /\ hist.pings[e] > 0
    /\ PingDue(e)
    /\ conn' = [conn EXCEPT ![e].pong_received = FALSE, ![e].last_ping = TRUE]
    /\ send_frames(e, <<FramePing>>)
    /\ hist' = [hist EXCEPT !.pings[e] = @ - 1]
    /\ UNCHANGED <<cmd_q, transport, channels, sender_shared, receiver_shared,
                   senders, receivers, requests>>

(***************************************************************************)
(* Connection::handle_pong                                                 *)
(***************************************************************************)
handle_pong(c) ==
    IF ~c.last_ping
    THEN [c EXCEPT !.result = "ProtocolViolation"]
    ELSE [c EXCEPT !.pong_received = TRUE, !.smoothened_rtt = TRUE,
                   !.result = "Pending"]

(***************************************************************************)
(* Connection::poll_event, outbound loop: one frame from the queue to the  *)
(* transport.                                                              *)
(***************************************************************************)
Transmit(e) ==
    /\ ~conn[e].dropped
    /\ frame_q[e] # <<>>
    /\ transport' = [transport EXCEPT ![e] = Append(@, NextOutbound(frame_q[e]))]
    /\ frame_q' = [frame_q EXCEPT ![e] = RestOutbound(@)]
    /\ conn' = [conn EXCEPT ![e].frames_sent = @ + 1]
    /\ UNCHANGED <<cmd_q, channels, sender_shared, receiver_shared, senders,
                   receivers, requests, enq, hist>>

(***************************************************************************)
(* Frame::parse, on the frame records of this model: the tag must be one   *)
(* of the wire table.                                                      *)
(***************************************************************************)
Tags == {"Hello", "Close", "ChannelRequest", "ChannelAccept", "ChannelReject",
         "ChannelData", "ChannelAdjust", "ChannelClose", "ChannelClosed",
         "Ping", "Pong"}

ParseOk(f) == f.tag \in Tags

(* A message Frame::parse rejects, and the end of the transport's stream   *)
(* (poll_next yields Ready(None)), as items of the transport queue.        *)
InvalidFrame == Frame("Invalid", NULL, NULL, 0, 0, <<>>)

EndOfStream == Frame("EndOfStream", NULL, NULL, 0, 0, <<>>)

(***************************************************************************)
(* Connection::handle_frame, one operator per variant.  `c` is the         *)
(* connection record of e with frames_received already counted; each       *)
(* operator sets conn, the outbound queue, the request handles and the     *)
(* channel state.                                                          *)
(***************************************************************************)
Result(e, c, res) == conn' = [conn EXCEPT ![e] = [c EXCEPT !.result = res]]

NoFrames == UNCHANGED <<frame_q, enq>>

HandleHello(e, f, c) ==
    /\ Result(e, c, "Connected")
    /\ NoFrames /\ NoChannelChange /\ UNCHANGED requests

HandleClose(e, f, c) ==
    /\ Result(e, [c EXCEPT !.closed = TRUE], "Closed")
    /\ NoFrames /\ NoChannelChange /\ UNCHANGED requests

HandleChannelRequest(e, f, c) ==
    /\ Result(e, [c EXCEPT !.delivered = Append(@, f.sender_id)], "RequestChannel")
    /\ requests' = [requests EXCEPT ![e] = @ \cup {f.sender_id}]
    /\ NoFrames /\ NoChannelChange

HasPendingAlways(c, local_id) == TRUE

(* pending_requests.remove(&local_id) finds an entry. *)
HasPending(c, local_id) == local_id \in c.pending_requests

(* result_tx.send(..) succeeds: the awaiter of the request stored under    *)
(* local_id has not dropped its future.                                    *)
AwaitedAlways(c, local_id) == TRUE

Awaited(c, local_id) ==
    /\ local_id \in DOMAIN c.notifier
    /\ c.calls[c.notifier[local_id]] = "Waiting"

Resolve(c, local_id, outcome) ==
    [c EXCEPT !.calls[c.notifier[local_id]] = outcome]

(* make_channel runs before the pending request is looked up; a Channel    *)
(* nobody takes (no pending request, or an awaiter that is gone) is        *)
(* dropped, and dropping its Receiver enqueues ChannelClose.               *)
HandleChannelAccept(e, f, c) ==
    LET local_id == f.receiver_id
        remote_id == f.sender_id
        pending == HasPending(c, local_id)
        taken == pending /\ Awaited(c, local_id)
    IN  /\ make_channel(e, local_id, remote_id, taken)
        /\ IF taken
           THEN /\ Result(e, [Resolve(c, local_id, "Channel") EXCEPT
                                  !.pending_requests = @ \ {local_id},
                                  !.results[local_id] =
                                      OpenedChannel(local_id, remote_id)],
                          "Pending")
                /\ NoFrames
           ELSE /\ Result(e, [c EXCEPT !.pending_requests = @ \ {local_id}],
                          IF pending THEN "Pending" ELSE "ProtocolViolation")
                /\ send_frames(e, <<FrameChannelClose(remote_id)>>)
        /\ UNCHANGED requests

HandleChannelReject(e, f, c) ==
    LET local_id == f.receiver_id
        pending == HasPending(c, local_id)
    IN  /\ IF pending /\ Awaited(c, local_id)
           THEN Result(e, [Resolve(c, local_id, "Rejected") EXCEPT
                              !.pending_requests = @ \ {local_id},
                              !.results[local_id] = OpenRejected(f)],
                       "Pending")
           ELSE Result(e, [c EXCEPT !.pending_requests = @ \ {local_id}],
                       IF pending THEN "Pending" ELSE "ProtocolViolation")
        /\ NoFrames /\ NoChannelChange /\ UNCHANGED requests

(* The credit check of an inbound data frame against the receiver's        *)
(* remaining credit.                                                       *)
DataWithinCredit(rs, f) ==
    /\ rs.remaining_frame_credit # 0
    /\ ~(rs.remaining_byte_credit < Len(f.payload))

HandleChannelData(e, f, c) ==
    LET local_id == f.receiver_id
        k == <<e, local_id>>
    IN  /\ IF Known(e, local_id)
           THEN IF DataWithinCredit(receiver_shared[k], f)
                THEN /\ receiver_shared' = [receiver_shared EXCEPT ![k] =
                            WakeReader([@ EXCEPT !.buffer = Append(@, f)])]
                     /\ receivers' = [receivers EXCEPT ![k] = Woken(@, receiver_shared[k], receiver_shared'[k])]
                     /\ Result(e, c, "Pending")
                ELSE /\ Result(e, c, "ProtocolViolation")
                     /\ UNCHANGED <<receiver_shared, receivers>>
           ELSE /\ Result(e, c, "Pending")
                /\ UNCHANGED <<receiver_shared, receivers>>
        /\ NoFrames /\ UNCHANGED <<channels, sender_shared, senders, requests>>

HandleChannelAdjustSet(e, f, c) ==
    LET local_id == f.receiver_id
        k == <<e, local_id>>
    IN  /\ IF Known(e, local_id)
           THEN /\ sender_shared' = [sender_shared EXCEPT ![k] =
                       WakeWriter([@ EXCEPT
                           !.remaining_frame_credit = f.frame_credit,
                           !.remaining_byte_credit = f.byte_credit,
                           !.used_byte_credit = 0,
                           !.used_frame_credit = 0])]
                /\ senders' = [senders EXCEPT ![k] = Woken(@, sender_shared[k], sender_shared'[k])]
           ELSE UNCHANGED <<sender_shared, senders>>
        /\ Result(e, c, "Pending")
        /\ NoFrames /\ UNCHANGED <<channels, receiver_shared, receivers, requests>>

HandleChannelAdjust(e, f, c) ==
    LET local_id == f.receiver_id
        k == <<e, local_id>>
    IN  /\ IF Known(e, local_id)
           THEN /\ sender_shared' = [sender_shared EXCEPT ![k] =
                       WakeWriter([@ EXCEPT
                           !.remaining_frame_credit = @ + f.frame_credit,
                           !.remaining_byte_credit = @ + f.byte_credit,
                           !.used_byte_credit = 0,
                           !.used_frame_credit = 0])]
                /\ senders' = [senders EXCEPT ![k] = Woken(@, sender_shared[k], sender_shared'[k])]
           ELSE UNCHANGED <<sender_shared, senders>>
        /\ Result(e, c, "Pending")
        /\ NoFrames /\ UNCHANGED <<channels, receiver_shared, receivers, requests>>

CloseSenderSharedSilent(ss) == [ss EXCEPT !.closed = TRUE]

CloseSenderShared(ss) == WakeWriter([ss EXCEPT !.closed = TRUE])

HandleChannelCloseStrict(e, f, c) ==
    LET local_id == f.receiver_id
        k == <<e, local_id>>
    IN  /\ IF Known(e, local_id)
           THEN /\ sender_shared' = [sender_shared EXCEPT ![k] = CloseSenderShared(@)]
                /\ senders' = [senders EXCEPT ![k] = Woken(@, sender_shared[k], sender_shared'[k])]
                /\ Result(e, c, "Pending")
           ELSE /\ UNCHANGED <<sender_shared, senders>>
                /\ Result(e, c, "ProtocolViolation")
        /\ NoFrames /\ UNCHANGED <<channels, receiver_shared, receivers, requests>>

HandleChannelCloseBoth(e, f, c) ==
    LET local_id == f.receiver_id
        k == <<e, local_id>>
    IN  /\ IF Known(e, local_id)
           THEN /\ sender_shared' = [sender_shared EXCEPT ![k] = CloseSenderShared(@)]
                /\ senders' = [senders EXCEPT ![k] = Woken(@, sender_shared[k], sender_shared'[k])]
                /\ receiver_shared' = [receiver_shared EXCEPT ![k].closed = TRUE]
           ELSE UNCHANGED <<sender_shared, senders, receiver_shared>>
        /\ Result(e, c, "Pending")
        /\ NoFrames /\ UNCHANGED <<channels, receivers, requests>>

HandleChannelClose(e, f, c) ==
    LET local_id == f.receiver_id
        k == <<e, local_id>>
    IN  /\ IF Known(e, local_id)
           THEN /\ sender_shared' = [sender_shared EXCEPT ![k] = CloseSenderShared(@)]
                /\ senders' = [senders EXCEPT ![k] = Woken(@, sender_shared[k], sender_shared'[k])]
           ELSE UNCHANGED <<sender_shared, senders>>
        /\ Result(e, c, "Pending")
        /\ NoFrames /\ UNCHANGED <<channels, receiver_shared, receivers, requests>>

CloseReceiverShared(rs) == WakeReader([rs EXCEPT !.closed = TRUE])

HandleChannelClosed(e, f, c) ==
    LET local_id == f.receiver_id
        k == <<e, local_id>>
    IN  /\ IF Known(e, local_id)
           THEN /\ receiver_shared' = [receiver_shared EXCEPT ![k] = CloseReceiverShared(@)]
                /\ receivers' = [receivers EXCEPT ![k] = Woken(@, receiver_shared[k], receiver_shared'[k])]
           ELSE UNCHANGED <<receiver_shared, receivers>>
        /\ Result(e, c, "Pending")
        /\ NoFrames /\ UNCHANGED <<channels, sender_shared, senders, requests>>

HandlePing(e, f, c) ==
    /\ send_frames(e, <<FramePong>>)
    /\ Result(e, c, "Pending")
    /\ NoChannelChange /\ UNCHANGED requests

HandlePong(e, f, c) ==
    /\ conn' = [conn EXCEPT ![e] = handle_pong(c)]
    /\ NoFrames /\ NoChannelChange /\ UNCHANGED requests

handle_frame(e, f, c) ==
    CASE f.tag = "Hello" -> HandleHello(e, f, c)
      [] f.tag = "Close" -> HandleClose(e, f, c)
      [] f.tag = "ChannelRequest" -> HandleChannelRequest(e, f, c)
      [] f.tag = "ChannelAccept" -> HandleChannelAccept(e, f, c)
      [] f.tag = "ChannelReject" -> HandleChannelReject(e, f, c)
      [] f.tag = "ChannelData" -> HandleChannelData(e, f, c)
      [] f.tag = "ChannelAdjust" -> HandleChannelAdjust(e, f, c)
      [] f.tag = "ChannelClose" -> HandleChannelClose(e, f, c)
      [] f.tag = "ChannelClosed" -> HandleChannelClosed(e, f, c)
      [] f.tag = "Ping" -> HandlePing(e, f, c)
      [] f.tag = "Pong" -> HandlePong(e, f, c)

(***************************************************************************)
(* Connection::poll_event, inbound loop: take one message from the         *)
(* transport, parse it, dispatch it.                                       *)
(***************************************************************************)
Dispatched(f) == [tag |-> f.tag, receiver_id |-> f.receiver_id]

Receive(e) ==
    /\ ~conn[e].dropped
    /\ ~conn[e].exhausted
    /\ transport[Peer(e)] # <<>>
    /\ LET f == Head(transport[Peer(e)])
       IN  /\ transport' = [transport EXCEPT ![Peer(e)] = Tail(@)]
           /\ IF f = EndOfStream
              THEN /\ Result(e, [conn[e] EXCEPT !.exhausted = TRUE], "Pending")
                   /\ NoFrames /\ NoChannelChange /\ UNCHANGED requests
              ELSE IF ParseOk(f)
              THEN handle_frame(e, f, [conn[e] EXCEPT !.frames_received = @ + 1,
                                                       !.last = Dispatched(f)])
              ELSE /\ Result(e, [conn[e] EXCEPT !.last = Dispatched(f)], "ProtocolViolation")
                   /\ NoFrames /\ NoChannelChange /\ UNCHANGED requests
    /\ UNCHANGED <<cmd_q, hist>>

(***************************************************************************)
(* Sender::poll_send_chunk, as a function of the shared state and the      *)
(* Sender: the outcome, the new shared state, the new Sender, and the      *)
(* frames enqueued.                                                        *)
(***************************************************************************)
UseCreditFree(ss, byte_credit) ==
    [ss EXCEPT !.used_frame_credit = @ + 1,
               !.used_byte_credit = @ + byte_credit]

UseCredit(ss, byte_credit) ==
    [ss EXCEPT !.remaining_frame_credit = @ - 1,
               !.remaining_byte_credit = @ - byte_credit,
               !.used_frame_credit = @ + 1,
               !.used_byte_credit = @ + byte_credit]

poll_send_chunk_open(ss, snd) ==
    IF ~snd.has_pending
    THEN [res |-> "Ok", ss |-> ss, snd |-> snd, out |-> <<>>]
    ELSE LET byte_credit == Len(snd.pending)
         IN  IF ~(ss.remaining_byte_credit >= byte_credit)
             THEN [res |-> "Panic", ss |-> ss, snd |-> snd, out |-> <<>>]
             ELSE IF ss.remaining_frame_credit > 0
             THEN [res |-> "Ok",
                   ss |-> UseCredit(ss, byte_credit),
                   snd |-> [snd EXCEPT !.pending = <<>>, !.has_pending = FALSE],
                   out |-> <<FrameChannelData(snd.remote_id, snd.pending)>>]
             ELSE [res |-> "Pending", ss |-> [ss EXCEPT !.waker = TRUE],
                   snd |-> snd, out |-> <<>>]

poll_send_chunk(ss, snd) ==
    IF ss.closed
    THEN [res |-> "Closed", ss |-> ss, snd |-> snd, out |-> <<>>]
    ELSE IF ~snd.has_pending
    THEN [res |-> "Ok", ss |-> ss, snd |-> snd, out |-> <<>>]
    ELSE LET byte_credit == Len(snd.pending)
         IN  IF ~(ss.remaining_byte_credit >= byte_credit)
             THEN [res |-> "Panic", ss |-> ss, snd |-> snd, out |-> <<>>]
             ELSE IF ss.remaining_frame_credit > 0
             THEN [res |-> "Ok",
                   ss |-> UseCredit(ss, byte_credit),
                   snd |-> [snd EXCEPT !.pending = <<>>, !.has_pending = FALSE],
                   out |-> <<FrameChannelData(snd.remote_id, snd.pending)>>]
             ELSE [res |-> "Pending", ss |-> [ss EXCEPT !.waker = TRUE],
                   snd |-> snd, out |-> <<>>]

(* poll_flush maps the outcome of poll_send_chunk to an io result. *)
FlushResult(res) ==
    CASE res = "Ok" -> "Ready"
      [] res = "Pending" -> "Pending"
      [] res = "Closed" -> "BrokenPipe"
      [] res = "Panic" -> "Panic"

SenderUnchanged ==
    UNCHANGED <<cmd_q, transport, conn, channels, receiver_shared, receivers,
                requests>>

(***************************************************************************)
(* AsyncWrite for Sender                                                   *)
(***************************************************************************)
poll_flush(k) ==
    /\ k \in DOMAIN senders
    /\ k[1] \in hist.writers
    /\ senders[k].alive
    /\ LET r == poll_send_chunk(sender_shared[k], senders[k])
       IN  /\ sender_shared' = [sender_shared EXCEPT ![k] = r.ss]
           /\ senders' = [senders EXCEPT ![k] =
                  [r.snd EXCEPT !.result = FlushResult(r.res), !.woken = FALSE]]
           /\ send_frames(k[1], r.out)
    /\ SenderUnchanged /\ UNCHANGED hist

(* The bytes a write takes from the caller's buffer: the i-th byte ever    *)
(* accepted by a Sender has the value i.                                   *)
Bytes(from, count) == [i \in 1 .. count |-> from + i]

WriteBlockedNever(ss) == FALSE

WriteBlocked(ss) == ss.remaining_byte_credit < WRITE_THRESHOLD

ChunkSizeWhole(ss, len) == len

ChunkSize(ss, len) == Min(ss.remaining_byte_credit, len)

(* What a write takes from the environment's budget `hist.bytes`: the      *)
(* bytes staged, an empty write counting as one.                           *)
Cost(len) == IF len = 0 THEN 1 ELSE len

poll_write(k, len) ==
    /\ k \in DOMAIN senders
    /\ k[1] \in hist.writers
    /\ senders[k].alive
    /\ Cost(len) <= hist.bytes
    /\ LET r == poll_send_chunk(sender_shared[k], senders[k])
           chunk_size == ChunkSize(r.ss, len)
       IN  /\ send_frames(k[1], r.out)
           /\ IF r.res # "Ok"
              THEN /\ sender_shared' = [sender_shared EXCEPT ![k] = r.ss]
                   /\ senders' = [senders EXCEPT ![k] =
                          [r.snd EXCEPT !.result = FlushResult(r.res), !.woken = FALSE]]
                   /\ UNCHANGED hist
              ELSE IF WriteBlocked(r.ss)
              THEN /\ sender_shared' = [sender_shared EXCEPT ![k] =
                          [r.ss EXCEPT !.waker = TRUE]]
                   /\ senders' = [senders EXCEPT ![k] =
                          [r.snd EXCEPT !.result = "Pending", !.woken = FALSE]]
                   /\ UNCHANGED hist
              ELSE /\ sender_shared' = [sender_shared EXCEPT ![k] = r.ss]
                   /\ hist' = [hist EXCEPT !.bytes = @ - Cost(chunk_size)]
                   /\ senders' = [senders EXCEPT ![k] =
                          [r.snd EXCEPT !.pending = Bytes(r.snd.written, chunk_size),
                                        !.has_pending = TRUE,
                                        !.written = @ + chunk_size,
                                        !.result = "Ready", !.woken = FALSE]]
    /\ SenderUnchanged

poll_close_marking(k) ==
    /\ k \in DOMAIN senders
    /\ k[1] \in hist.writers
    /\ senders[k].alive
    /\ hist.closes > 0
    /\ LET r == poll_send_chunk(sender_shared[k], senders[k])
       IN  /\ sender_shared' = [sender_shared EXCEPT ![k] =
                  [r.ss EXCEPT !.closed = @ \/ r.res = "Ok"]]
           /\ senders' = [senders EXCEPT ![k] =
                  [r.snd EXCEPT !.result = FlushResult(r.res), !.woken = FALSE]]
           /\ hist' = [hist EXCEPT !.closes = @ - 1]
           /\ send_frames(k[1],
                  IF r.res = "Ok"
                  THEN r.out \o <<FrameChannelClosed(senders[k].remote_id)>>
                  ELSE r.out)
    /\ SenderUnchanged

poll_close(k) ==
    /\ k \in DOMAIN senders
    /\ k[1] \in hist.writers
    /\ senders[k].alive
    /\ hist.closes > 0
    /\ LET r == poll_send_chunk(sender_shared[k], senders[k])
       IN  /\ sender_shared' = [sender_shared EXCEPT ![k] = r.ss]
           /\ senders' = [senders EXCEPT ![k] =
                  [r.snd EXCEPT !.result = FlushResult(r.res), !.woken = FALSE]]
           /\ hist' = [hist EXCEPT !.closes = @ - 1]
           /\ send_frames(k[1],
                  IF r.res = "Ok"
                  THEN r.out \o <<FrameChannelClosed(senders[k].remote_id)>>
                  ELSE r.out)
    /\ SenderUnchanged

(* Dropping a Sender: no Drop implementation, nothing is enqueued. *)
DropSenderClosing(k) ==
    /\ k \in DOMAIN senders
    /\ k[1] \in hist.writers
    /\ senders[k].alive
    /\ senders' = [senders EXCEPT ![k].alive = FALSE]
    /\ send_frames(k[1], <<FrameChannelClosed(senders[k].remote_id)>>)
    /\ UNCHANGED <<cmd_q, transport, conn, channels, sender_shared,
                   receiver_shared, receivers, requests, hist>>

DropSender(k) ==
    /\ k \in DOMAIN senders
    /\ k[1] \in hist.writers
    /\ senders[k].alive
    /\ senders' = [senders EXCEPT ![k].alive = FALSE]
    /\ UNCHANGED <<frame_q, cmd_q, transport, conn, channels, sender_shared,
                   receiver_shared, receivers, requests, enq, hist>>

(***************************************************************************)
(* Receiver::poll_next_chunk, as a function of the shared state.  `rtt` is *)
(* whether the connection has a round-trip estimate; fast_f and fast_b are *)
(* the outcomes of the two `elapsed() < 2 * rtt` tests.                    *)
(***************************************************************************)
DoubledUncapped(max, cap, wrap) == (max * 2) % wrap

Doubled(max, cap, wrap) == Min((max * 2) % wrap, cap)

EndOfChunks(rs) == rs.closed

ReplenishAt(cr, rs, remote_id, rtt, fast_f, fast_b) ==
    LET low_f == rs.remaining_frame_credit < rs.max_frame_credit \div 2
        low_b == rs.remaining_byte_credit < rs.max_byte_credit \div 2
        max_f == IF low_f /\ rtt /\ fast_f
                 THEN Doubled(rs.max_frame_credit, cr.max_frame, cr.wrap)
                 ELSE rs.max_frame_credit
        max_b == IF low_b /\ rtt /\ fast_b
                 THEN Doubled(rs.max_byte_credit, cr.max_byte, cr.wrap)
                 ELSE rs.max_byte_credit
        add_frame_credit == (max_f - rs.remaining_frame_credit) % cr.wrap
        add_byte_credit == (max_b - rs.remaining_byte_credit) % cr.wrap
    IN  IF low_f \/ low_b
        THEN [rs |-> [rs EXCEPT !.max_frame_credit = max_f,
                                !.max_byte_credit = max_b,
                                !.remaining_frame_credit = max_f,
                                !.remaining_byte_credit = max_b,
                                !.granted_frames = @ + add_frame_credit,
                                !.granted_bytes = @ + add_byte_credit],
              out |-> <<FrameChannelAdjust(remote_id, add_frame_credit, add_byte_credit)>>]
        ELSE [rs |-> rs, out |-> <<>>]

Replenish(rs, remote_id, rtt, fast_f, fast_b) ==
    ReplenishAt(Scaled, rs, remote_id, rtt, fast_f, fast_b)

(* The debit of one popped frame whose payload has `len` bytes.  The       *)
(* subtractions are on u32: below zero they wrap (a build with overflow    *)
(* checks panics there instead).                                           *)
DebitFrameOnly(rs, len) ==
    [rs EXCEPT !.remaining_frame_credit = (@ - 1) % Scaled.wrap,
               !.granted_frames = @ - 1,
               !.granted_bytes = @ - len]

Debit(rs, len) ==
    [rs EXCEPT !.remaining_frame_credit = (@ - 1) % Scaled.wrap,
               !.remaining_byte_credit = (@ - len) % Scaled.wrap,
               !.granted_frames = @ - 1,
               !.granted_bytes = @ - len]

Consume(rs, frame) ==
    [Debit(rs, Len(frame.payload)) EXCEPT !.buffer = Tail(@)]

poll_next_chunk(rs, remote_id, rtt, fast_f, fast_b) ==
    IF EndOfChunks(rs)
    THEN [res |-> "None", rs |-> rs, frame |-> FrameHello, out |-> <<>>]
    ELSE IF rs.buffer # <<>>
    THEN LET frame == Head(rs.buffer)
             r == Replenish(Consume(rs, frame), remote_id, rtt, fast_f, fast_b)
         IN  [res |-> "Some", rs |-> r.rs, frame |-> frame, out |-> r.out]
    ELSE [res |-> "Pending", rs |-> [rs EXCEPT !.waker = TRUE],
          frame |-> FrameHello, out |-> <<>>]

(***************************************************************************)
(* AsyncRead for Receiver: copy from the pending chunk.                    *)
(***************************************************************************)
StartOffsetInHeader == MIN_FRAME_SIZE - 1

StartOffset == MIN_FRAME_SIZE

CopyOut(rcv, len) ==
    LET bytes == Min(Len(rcv.pending) - rcv.offset, len)
        offset == rcv.offset + bytes
        done == offset >= Len(rcv.pending)
    IN  [rcv EXCEPT !.log = @ \o SubSeq(rcv.pending, rcv.offset + 1, rcv.offset + bytes),
                    !.offset = IF done THEN 0 ELSE offset,
                    !.pending = IF done THEN <<>> ELSE @,
                    !.has_pending = ~done,
                    !.result = IF bytes = 0 THEN "Ready0" ELSE "Ready"]

(* What poll_read returns when poll_next_chunk reports the end of the      *)
(* stream.                                                                 *)
ReadAtEnd == "Pending"

ReceiverUnchanged ==
    UNCHANGED <<cmd_q, transport, conn, channels, sender_shared, senders,
                requests, hist>>

Timings == {<<TRUE, TRUE>>, <<TRUE, FALSE>>, <<FALSE, FALSE>>}

poll_read(k, len, t) ==
    /\ k \in DOMAIN receivers
    /\ k[1] \in hist.readers
    /\ receivers[k].alive
    /\ conn[k[1]].smoothened_rtt \/ t = <<FALSE, FALSE>>
    /\ IF receivers[k].has_pending
       THEN /\ receivers' = [receivers EXCEPT ![k] =
                   CopyOut([@ EXCEPT !.woken = FALSE, !.chunk_result = "none"], len)]
            /\ UNCHANGED <<receiver_shared, frame_q, enq>>
       ELSE LET r == poll_next_chunk(receiver_shared[k], receivers[k].remote_id,
                                     conn[k[1]].smoothened_rtt, t[1], t[2])
                rcv == [receivers[k] EXCEPT !.woken = FALSE, !.chunk_result = r.res]
            IN  /\ receiver_shared' = [receiver_shared EXCEPT ![k] = r.rs]
                /\ send_frames(k[1], r.out)
                /\ receivers' = [receivers EXCEPT ![k] =
                       CASE r.res = "Some" ->
                              CopyOut([rcv EXCEPT !.pending = DataFrameBytes(r.frame),
                                                  !.has_pending = TRUE,
                                                  !.offset = StartOffset], len)
                         [] r.res = "None" -> [rcv EXCEPT !.result = ReadAtEnd]
                         [] r.res = "Pending" -> [rcv EXCEPT !.result = "Pending"]]
    /\ ReceiverUnchanged

(***************************************************************************)
(* Drop for Receiver: enqueue ChannelClose for the remote id.              *)
(***************************************************************************)
DropReceiver(k) ==
    /\ k \in DOMAIN receivers
    /\ k[1] \in hist.readers
    /\ receivers[k].alive
    /\ receivers' = [receivers EXCEPT ![k].alive = FALSE]
    /\ send_frames(k[1], <<FrameChannelClose(receivers[k].remote_id)>>)
    /\ UNCHANGED <<cmd_q, transport, conn, channels, sender_shared,
                   receiver_shared, senders, requests, hist>>

(***************************************************************************)
(* The system: two endpoints running this code.                            *)
(***************************************************************************)
Keys == Endpoints \X Ids

UserNext ==
    \/ \E e \in Endpoints : Open(e)
    \/ \E e \in Endpoints, r \in Ids : Accept(e, r)
    \/ \E e \in Endpoints, r \in Ids : Reject(e, r)
    \/ \E e \in Endpoints, r \in Ids : DropRequest(e, r)

PollNext ==
    \/ \E e \in Endpoints : HandleCmd(e)
    \/ \E e \in Endpoints : Ping(e)

WireNext ==
    \/ \E e \in Endpoints : Transmit(e)
    \/ \E e \in Endpoints : Receive(e)

ChannelNext ==
    \/ \E k \in Keys, len \in 1 .. MaxBuf : poll_write(k, len)
    \/ \E k \in Keys : poll_flush(k)
    \/ \E k \in Keys : poll_close(k)
    \/ \E k \in Keys : DropSender(k)
    \/ \E k \in Keys, len \in 1 .. MaxBuf, t \in Timings : poll_read(k, len, t)
    \/ \E k \in Keys : DropReceiver(k)

Next == UserNext \/ PollNext \/ WireNext \/ ChannelNext

Spec == Init /\ [][Next]_vars

(***************************************************************************)
(* SpecConn: the connection level alone (handshakes and keepalive), with   *)
(* more opens and more timer ticks than Spec affords.                      *)
(***************************************************************************)
InitConn ==
    /\ Constructed
    /\ hist = [opens |-> ConnMaxOpens,
               pings |-> [e \in Endpoints |-> ConnMaxPings],
               bytes |-> 0, closes |-> 0, writers |-> {}, readers |-> {},
               peer |-> 0]

NextConn == UserNext \/ PollNext \/ WireNext

SpecConn == InitConn /\ [][NextConn]_vars

(***************************************************************************)
(* SpecData: one established channel.  The initial state is the state      *)
(* SpecConn reaches after A opened a channel, B accepted it, each side     *)
(* completed one ping round trip, and every queue drained: channel         *)
(* (A, 1) <-> (B, 1).  Data flows in one direction, from the Sender at A   *)
(* to the Receiver at B; the state and the code are symmetric in the two   *)
(* endpoints, so the other direction behaves alike.                        *)
(***************************************************************************)
EstablishedConn(res) ==
    [exhausted |-> FALSE, closed |-> FALSE, next_channel_id |-> 2,
     pending_requests |-> {}, last_ping |-> TRUE, smoothened_rtt |-> TRUE,
     pong_received |-> TRUE, frames_sent |-> 4, frames_received |-> 4,
     result |-> res, ids |-> <<1>>,
     results |-> <<>>, delivered |-> <<>>, responses |-> <<>>,
     last |-> [tag |-> "Pong", receiver_id |-> NULL],
     dropped |-> FALSE, calls |-> <<>>, notifier |-> <<>>]

EstablishedAt(cr) ==
    /\ frame_q = [e \in Endpoints |-> <<>>]
    /\ cmd_q = [e \in Endpoints |-> <<>>]
    /\ transport = [e \in Endpoints |-> <<>>]
    /\ conn = [e \in Endpoints |->
           IF e = "A"
           THEN [EstablishedConn("Pending") EXCEPT
                    !.results = 1 :> OpenedChannel(1, 1),
                    !.calls = <<"Channel">>, !.notifier = 1 :> 1]
           ELSE [EstablishedConn("Pending") EXCEPT
                    !.delivered = <<1>>,
                    !.responses = <<Response(FrameChannelAccept(1, 1, 0, 0))>>]]
    /\ channels = [e \in Endpoints |-> (1 :> [local_id |-> 1, remote_id |-> 1])]
    /\ sender_shared = [k \in Endpoints \X {1} |->
           NewSenderShared(cr.initial_frame, cr.initial_byte)]
    /\ receiver_shared = [k \in Endpoints \X {1} |-> NewReceiverSharedAt(cr)]
    /\ senders = [k \in Endpoints \X {1} |-> NewSender(1)]
    /\ receivers = [k \in Endpoints \X {1} |-> NewReceiver(1)]
    /\ requests = [e \in Endpoints |-> {}]
    /\ enq = [e \in Endpoints |-> 4]

Established == EstablishedAt(Scaled)

InitData ==
    /\ Established
    /\ hist = [opens |-> 0, pings |-> [e \in Endpoints |-> 0],
               bytes |-> DataMaxBytes, closes |-> MaxCloses,
               writers |-> {"A"}, readers |-> {"B"}, peer |-> 0]

NextData == WireNext \/ ChannelNext

SpecData == InitData /\ [][NextData]_vars


(***************************************************************************)
(* SpecWrite: the write path on one established channel.  The writer at A  *)
(* hands poll_write buffers of every length from empty to longer than the  *)
(* write threshold, and flushes; the reader at B reads.                    *)
(***************************************************************************)
InitWrite ==
    /\ Established
    /\ hist = [opens |-> 0, pings |-> [e \in Endpoints |-> 0],
               bytes |-> WriteMaxBytes, closes |-> 0,
               writers |-> {"A"}, readers |-> {"B"}, peer |-> 0]

NextWrite ==
    \/ WireNext
    \/ \E k \in Keys, len \in 0 .. WriteMaxBuf : poll_write(k, len)
    \/ \E k \in Keys : poll_flush(k)
    \/ \E k \in Keys, len \in 1 .. MaxBuf, t \in Timings : poll_read(k, len, t)

SpecWrite == InitWrite /\ [][NextWrite]_vars

(***************************************************************************)
(* SpecClose: the writer at A writes, flushes and closes its Sender more   *)
(* than once; B's connection dispatches what arrives.                      *)
(***************************************************************************)
InitClose ==
    /\ Established
    /\ hist = [opens |-> 0, pings |-> [e \in Endpoints |-> 0],
               bytes |-> CloseMaxBytes, closes |-> CloseMaxCloses,
               writers |-> {"A"}, readers |-> {}, peer |-> 0]

NextClose ==
    \/ WireNext
    \/ \E k \in Keys, len \in 1 .. MaxBuf : poll_write(k, len)
    \/ \E k \in Keys : poll_flush(k)
    \/ \E k \in Keys : poll_close(k)

SpecClose == InitClose /\ [][NextClose]_vars

(***************************************************************************)
(* SpecHalf: one established channel used in both directions.  The task   *)
(* at A writes, closes its sender and drops its receiver; the task at B    *)
(* keeps writing and reading.                                              *)
(***************************************************************************)
InitHalf ==
    /\ Established
    /\ hist = [opens |-> 0, pings |-> [e \in Endpoints |-> 0],
               bytes |-> HalfMaxBytes, closes |-> MaxCloses,
               writers |-> Endpoints, readers |-> Endpoints, peer |-> 0]

NextHalf ==
    \/ WireNext
    \/ \E len \in 1 .. MaxBuf : poll_write(<<"A", 1>>, len)
    \/ poll_close(<<"A", 1>>)
    \/ DropReceiver(<<"A", 1>>)
    \/ \E len \in 1 .. MaxBuf : poll_write(<<"B", 1>>, len)
    \/ poll_flush(<<"B", 1>>)
    \/ \E len \in 1 .. MaxBuf, t \in Timings : poll_read(<<"B", 1>>, len, t)

SpecHalf == InitHalf /\ [][NextHalf]_vars

(***************************************************************************)
(* SpecDrop: an established channel whose two halves at endpoint B are     *)
(* used and dropped, the peer's connection still being polled.             *)
(***************************************************************************)
InitDrop ==
    /\ Established
    /\ hist = [opens |-> 0, pings |-> [e \in Endpoints |-> 0],
               bytes |-> MaxBytes, closes |-> MaxCloses,
               writers |-> {"B"}, readers |-> {"B"}, peer |-> 0]

SpecDrop == InitDrop /\ [][NextData]_vars

(***************************************************************************)
(* SpecOpen: endpoint A opens channels and B answers, while the openers    *)
(* at A may drop their futures and A's Connection may be dropped.          *)
(***************************************************************************)
InitOpen ==
    /\ Constructed
    /\ hist = [opens |-> ConnMaxOpens, pings |-> [e \in Endpoints |-> 0],
               bytes |-> 0, closes |-> 0, writers |-> {}, readers |-> {},
               peer |-> 0, drop |-> {"A"}]

NextOpen ==
    \/ Open("A")
    \/ \E i \in 1 .. ConnMaxOpens : DropOpen("A", i)
    \/ DropConnection("A")
    \/ \E r \in Ids : Accept("B", r)
    \/ \E r \in Ids : Reject("B", r)
    \/ \E e \in Endpoints : HandleCmd(e)
    \/ WireNext

SpecOpen == InitOpen /\ [][NextOpen]_vars

(***************************************************************************)
(* SpecCredit: the credit bookkeeping of the Receiver at B at the values   *)
(* of the source (bytes in KiB).  A step is one poll_next_chunk that pops  *)
(* a frame whose payload has `len` KiB: the debit, then the replenishment  *)
(* with its two doublings.  The frames popped are within the remaining     *)
(* credit; they are empty or just large enough to take the byte credit     *)
(* below half of its maximum.                                              *)
(***************************************************************************)
ChunkLens(rs) ==
    {len \in {0, rs.max_byte_credit \div 2 + 1} : len <= rs.remaining_byte_credit}

CreditRead(k, len, t) ==
    /\ k \in DOMAIN receiver_shared
    /\ k[1] \in hist.readers
    /\ receivers[k].alive
    /\ receiver_shared[k].remaining_frame_credit >= 1
    /\ len \in ChunkLens(receiver_shared[k])
    /\ conn[k[1]].smoothened_rtt \/ t = <<FALSE, FALSE>>
    /\ receiver_shared' = [receiver_shared EXCEPT ![k] =
           ReplenishAt(SourceCredits, Debit(@, len), receivers[k].remote_id,
                       conn[k[1]].smoothened_rtt, t[1], t[2]).rs]
    /\ UNCHANGED <<frame_q, cmd_q, transport, conn, channels, sender_shared,
                   senders, receivers, requests, enq, hist>>

InitCredit ==
    /\ EstablishedAt(SourceCredits)
    /\ hist = [opens |-> 0, pings |-> [e \in Endpoints |-> 0],
               bytes |-> 0, closes |-> 0,
               writers |-> {}, readers |-> {"B"}, peer |-> 0]

NextCredit ==
    \E k \in DOMAIN receiver_shared, t \in Timings :
        \E len \in ChunkLens(receiver_shared[k]) : CreditRead(k, len, t)

SpecCredit == InitCredit /\ [][NextCredit]_vars

(***************************************************************************)
(* The wire format at the level of bytes (frames.rs).  A message is a      *)
(* sequence of bytes 0 .. 255.  FrameTypes is the table handed to          *)
(* define_frame_types!: name, tag and the typed fields of every variant.   *)
(* An Option<usize> is a number, None being -1.                            *)
(***************************************************************************)
None == 0 - 1

Field(name, type) == [name |-> name, type |-> type]

FrameTypes ==
    << [name |-> "Hello", tag |-> 0,
        fields |-> <<Field("magic", "u8x16"), Field("info", "bytes")>>],
       [name |-> "Close", tag |-> 255,
        fields |-> <<Field("reason", "bytes")>>],
       [name |-> "ChannelRequest", tag |-> 16,
        fields |-> <<Field("sender_id", "ChannelId"), Field("frame_credit", "u32"),
                     Field("byte_credit", "u32"), Field("endpoint", "bytes")>>],
       [name |-> "ChannelAccept", tag |-> 17,
        fields |-> <<Field("receiver_id", "ChannelId"), Field("sender_id", "ChannelId"),
                     Field("frame_credit", "u32"), Field("byte_credit", "u32")>>],
       [name |-> "ChannelReject", tag |-> 18,
        fields |-> <<Field("receiver_id", "ChannelId"), Field("reason", "bytes")>>],
       [name |-> "ChannelData", tag |-> 19,
        fields |-> <<Field("receiver_id", "ChannelId"), Field("payload", "bytes")>>],
       [name |-> "ChannelAdjust", tag |-> 20,
        fields |-> <<Field("receiver_id", "ChannelId"), Field("frame_credit", "u32"),
                     Field("byte_credit", "u32")>>],
       [name |-> "ChannelClose", tag |-> 21,
        fields |-> <<Field("receiver_id", "ChannelId"), Field("reason", "bytes")>>],
       [name |-> "ChannelClosed", tag |-> 23,
        fields |-> <<Field("receiver_id", "ChannelId"), Field("reason", "bytes")>>],
       [name |-> "Ping", tag |-> 32, fields |-> <<>>],
       [name |-> "Pong", tag |-> 33, fields |-> <<>>] >>

Variants == {FrameTypes[i] : i \in DOMAIN FrameTypes}

PROTOCOL_MAGIC ==
    <<27, 27, 46, 134, 44, 205, 244, 157, 82, 109, 227, 13, 167, 171, 225, 140>>

(* FieldType::FIELD_SIZE of the four field types. *)
FIELD_SIZE(type) ==
    CASE type = "ChannelId" -> 8
      [] type = "u32" -> 4
      [] type = "u8x16" -> 16
      [] type = "bytes" -> None

add_optional_sizes(left, right) ==
    IF left # None /\ right # None THEN left + right ELSE None

(* define_frame_types!(@offsets): the FIELD_.._OFFSET constants in field   *)
(* order, then FRAME_SIZE and MIN_FRAME_SIZE.                              *)
RECURSIVE FieldOffsets(_, _)
FieldOffsets(fields, offset) ==
    IF fields = <<>>
    THEN <<>>
    ELSE <<offset>> \o FieldOffsets(Tail(fields),
                           add_optional_sizes(offset, FIELD_SIZE(Head(fields).type)))

FrameSizesTagOnly(fields, offset, previous_offset) ==
    [FRAME_SIZE |-> offset, MIN_FRAME_SIZE |-> 1]

RECURSIVE FrameSizes(_, _, _)
FrameSizes(fields, offset, previous_offset) ==
    IF fields = <<>>
    THEN [FRAME_SIZE |-> offset,
          MIN_FRAME_SIZE |-> IF offset # None THEN offset ELSE previous_offset]
    ELSE FrameSizes(Tail(fields),
                    add_optional_sizes(offset, FIELD_SIZE(Head(fields).type)),
                    offset)

MinFrameSize(v) == FrameSizes(v.fields, 1, 0).MIN_FRAME_SIZE

(* to_be_bytes / put_u32 and from_be_bytes. *)
RECURSIVE to_le_bytes(_, _)
to_le_bytes(value, size) ==
    IF size = 0 THEN <<>>
    ELSE <<value % 256>> \o to_le_bytes(value \div 256, size - 1)

RECURSIVE to_be_bytes(_, _)
to_be_bytes(value, size) ==
    IF size = 0 THEN <<>>
    ELSE Append(to_be_bytes(value \div 256, size - 1), value % 256)

RECURSIVE from_be_bytes(_)
from_be_bytes(bytes) ==
    IF bytes = <<>> THEN 0
    ELSE from_be_bytes(SubSeq(bytes, 1, Len(bytes) - 1)) * 256 + bytes[Len(bytes)]

(* FieldType::encode_into_buffer and FieldType::decode. *)
encode_into_buffer(type, value) ==
    IF type \in {"ChannelId", "u32"}
    THEN to_be_bytes(value, FIELD_SIZE(type))
    ELSE value

decode(type, bytes) ==
    IF type \in {"ChannelId", "u32"} THEN from_be_bytes(bytes) ELSE bytes

(* define_frame_types!(@new): the tag, then every field in order. *)
RECURSIVE EncodeFields(_, _)
EncodeFields(fields, values) ==
    IF fields = <<>>
    THEN <<>>
    ELSE encode_into_buffer(Head(fields).type, Head(values))
             \o EncodeFields(Tail(fields), Tail(values))

new(v, values) == <<v.tag>> \o EncodeFields(v.fields, values)

(* Frame::parse. *)
ParseError(error, arg) == [ok |-> FALSE, error |-> error, arg |-> arg]

parse(bytes) ==
    IF bytes = <<>>
    THEN ParseError("InvalidLength", 1)
    ELSE IF \E v \in Variants : v.tag = bytes[1]
    THEN LET v == CHOOSE v \in Variants : v.tag = bytes[1]
         IN  IF Len(bytes) < MinFrameSize(v)
             THEN ParseError("InvalidLength", MinFrameSize(v))
             ELSE [ok |-> TRUE, name |-> v.name, bytes |-> bytes]
    ELSE ParseError("InvalidTag", bytes[1])

(* define_frame_types!(@getters): the i-th field of a parsed frame. *)
getter(v, i, bytes) ==
    LET offset == FieldOffsets(v.fields, 1)[i]
        fixed == FIELD_SIZE(v.fields[i].type)
    IN  IF fixed # None
        THEN decode(v.fields[i].type, SubSeq(bytes, offset + 1, offset + fixed))
        ELSE decode(v.fields[i].type, SubSeq(bytes, offset + 1, Len(bytes)))

Getters(parsed) ==
    IF parsed.ok
    THEN LET v == CHOOSE v \in Variants : v.name = parsed.name
         IN  [i \in DOMAIN v.fields |-> getter(v, i, parsed.bytes)]
    ELSE <<>>

(***************************************************************************)
(* SpecFrames: the constructors and the parser applied to bounded inputs.  *)
(* The initial state holds either the arguments of a constructor or a raw  *)
(* message received from the transport; FrameNew builds the message of the *)
(* former, FrameParse parses a message, and FrameRead reads every field of *)
(* a constructed and parsed frame back.  Integers are drawn up to          *)
(* 2^31 - 1.                                                               *)
(***************************************************************************)
FieldValues(type) ==
    CASE type = "ChannelId" -> {0, 258, 2147483647}
      [] type = "u32" -> {0, 128, 16909060}
      [] type = "u8x16" -> {PROTOCOL_MAGIC, [i \in 1 .. 16 |-> 255]}
      [] type = "bytes" -> {<<>>, <<0>>, <<255, 19, 7>>}

RECURSIVE ArgumentLists(_)
ArgumentLists(fields) ==
    IF fields = <<>>
    THEN {<<>>}
    ELSE {<<x>> \o rest : x \in FieldValues(Head(fields).type),
                          rest \in ArgumentLists(Tail(fields))}

RawMessages ==
    {<<>>} \cup {<<tag>> \o [i \in 1 .. len - 1 |-> (tag + i) % 256] :
                     tag \in 0 .. 255, len \in 1 .. MaxRawLen}

NotParsed == [ok |-> FALSE, error |-> "none", arg |-> 0]

(* The variant field of a state that started from a raw message. *)
NoVariant == [name |-> "none", tag |-> None, fields |-> <<>>]

InitFrames ==
    /\ Constructed
    /\ \/ \E v \in Variants : \E values \in ArgumentLists(v.fields) :
              hist = [stage |-> "arguments", variant |-> v, values |-> values,
                      bytes |-> <<>>, parsed |-> NotParsed, fields |-> <<>>]
       \/ \E bytes \in RawMessages :
              hist = [stage |-> "message", variant |-> NoVariant, values |-> <<>>,
                      bytes |-> bytes, parsed |-> NotParsed, fields |-> <<>>]

FrameUnchanged ==
    UNCHANGED <<frame_q, cmd_q, transport, conn, channels, sender_shared,
                receiver_shared, senders, receivers, requests, enq>>

FrameNew ==
    /\ hist.stage = "arguments"
    /\ hist' = [hist EXCEPT !.stage = "built",
                            !.bytes = new(hist.variant, hist.values)]
    /\ FrameUnchanged

FrameParse ==
    /\ hist.stage \in {"built", "message"}
    /\ hist' = [hist EXCEPT !.stage = "parsed", !.parsed = parse(hist.bytes)]
    /\ FrameUnchanged

(* The handlers read the fields of a frame they were handed through its    *)
(* getters.                                                                *)
FrameRead ==
    /\ hist.stage = "parsed"
    /\ hist.parsed.ok
    /\ hist.variant.name # "none"
    /\ hist' = [hist EXCEPT !.stage = "read", !.fields = Getters(hist.parsed)]
    /\ FrameUnchanged

NextFrames == FrameNew \/ FrameParse \/ FrameRead

SpecFrames == InitFrames /\ [][NextFrames]_vars

(***************************************************************************)
(* The RPC protocol spoken over one channel (nexigon-rpc/src/lib.rs).  A   *)
(* reader `rx` is the bytes the transport still delivers: `bytes` are      *)
(* spelled out, `tail` counts the bytes of a body after them whose values  *)
(* do not matter, and then the stream ends or fails.  read_exact(n) at     *)
(* position pos succeeds iff n more bytes are delivered.  Sizes are drawn  *)
(* below 2^31.                                                             *)
(***************************************************************************)
MAX_ACTION_NAME_SIZE == 255

MAX_INPUT_SIZE == 8 * 1024 * 1024

MAX_OUTPUT_SIZE == 8 * 1024 * 1024

read_exact(rx, pos, n) == pos + n <= Len(rx.bytes) + rx.tail

Continuation(b) == b \in 128 .. 191

(* String::from_utf8 succeeds. *)
from_utf8_lossy(bytes) == TRUE

(* UTF-8 is self-synchronising, so the left-to-right decoding of           *)
(* String::from_utf8 accepts exactly the sequences in which every byte     *)
(* that is not a continuation byte starts a well-formed character and      *)
(* every continuation byte belongs to the character started before it.     *)
Width(b) ==
    CASE b \in 0 .. 127 -> 1
      [] b \in 194 .. 223 -> 2
      [] b \in 224 .. 239 -> 3
      [] b \in 240 .. 244 -> 4
      [] OTHER -> 0

CharacterAt(bytes, i) ==
    LET b == bytes[i]
    IN  /\ Width(b) # 0
        /\ i + Width(b) - 1 <= Len(bytes)
        /\ \A j \in i + 1 .. i + Width(b) - 1 : Continuation(bytes[j])
        /\ b = 224 => bytes[i + 1] >= 160
        /\ b = 237 => bytes[i + 1] <= 159
        /\ b = 240 => bytes[i + 1] >= 144
        /\ b = 244 => bytes[i + 1] <= 143

from_utf8(bytes) ==
    \A i \in 1 .. Len(bytes) :
        IF ~Continuation(bytes[i])
        THEN CharacterAt(bytes, i)
        ELSE \E j \in 1 .. i - 1 :
                 /\ i - j < Width(bytes[j])
                 /\ \A k \in j + 1 .. i : Continuation(bytes[k])

ReadError(error, consumed) ==
    [ok |-> FALSE, error |-> error, consumed |-> consumed, name |-> <<>>, input |-> 0]

(* read_action; `consumed` is how many bytes it had asked the reader for   *)
(* and got when it returned, `input` the length of the input it returns.   *)
read_action(rx) ==
    IF ~read_exact(rx, 0, 2) THEN ReadError("Read", 0)
    ELSE LET name_size == from_be_bytes(SubSeq(rx.bytes, 1, 2))
         IN  IF name_size > MAX_ACTION_NAME_SIZE
             THEN ReadError("ActionNameTooLarge", 2)
             ELSE IF ~read_exact(rx, 2, name_size) THEN ReadError("Read", 2)
             ELSE LET name == SubSeq(rx.bytes, 3, 2 + name_size)
                      at == 2 + name_size
                  IN  IF ~from_utf8(name) THEN ReadError("InvalidActionName", at)
                      ELSE IF ~read_exact(rx, at, 4) THEN ReadError("Read", at)
                      ELSE LET input_size ==
                                   from_be_bytes(SubSeq(rx.bytes, at + 1, at + 4))
                           IN  IF input_size > MAX_INPUT_SIZE
                               THEN ReadError("ActionInputTooLarge", at + 4)
                               ELSE IF ~read_exact(rx, at + 4, input_size)
                               THEN ReadError("Read", at + 4)
                               ELSE [ok |-> TRUE, error |-> "none",
                                     consumed |-> at + 4 + input_size,
                                     name |-> name, input |-> input_size]

(* execute: the two futures of try_join!.  The writer fails when the       *)
(* transport refuses the write or the flush; its error is mapped with      *)
(* ExecuteError::Read.  The reader reads the size and the body.            *)
ExecuteSend(tx) == IF tx = "ok" THEN "none" ELSE "Read"

ExecuteReceive(rx) ==
    IF ~read_exact(rx, 0, 4) THEN "Read"
    ELSE LET output_size == from_be_bytes(SubSeq(rx.bytes, 1, 4))
         IN  IF output_size > MAX_OUTPUT_SIZE THEN "OutputTooLarge"
             ELSE IF ~read_exact(rx, 4, output_size) THEN "Read"
             ELSE "none"

(* try_join! returns the error of the future that fails first; `first` is  *)
(* which of the two that is when both fail.  The body is decoded when      *)
(* both succeeded; `wellformed` is whether serde_json accepts it.          *)
execute(tx, rx, wellformed, first) ==
    LET sent == ExecuteSend(tx)
        received == ExecuteReceive(rx)
    IN  IF sent # "none" /\ (received = "none" \/ first = "tx") THEN sent
        ELSE IF received # "none" THEN received
        ELSE IF ~wellformed THEN "MalformedOutput"
        ELSE "Ok"

(***************************************************************************)
(* SpecRpc: read_action and execute applied to bounded inputs.  A request  *)
(* on the wire is the size of the name (2 bytes), the name, the size of    *)
(* the input (4 bytes) and the input; a response is the size of the        *)
(* output (4 bytes) and the output.  The stream may carry all of it or     *)
(* stop after `cut` bytes, by ending or by failing; read_exact reports      *)
(* either as an io::Error.                                                 *)
(***************************************************************************)
Names ==
    {<<>>, <<112, 105, 110, 103>>, <<195, 169>>, <<226, 130, 172>>,
     <<240, 159, 146, 150>>, [i \in 1 .. 255 |-> 97],
     <<255>>, <<195>>, <<192, 128>>, <<237, 160, 128>>, <<112, 128>>}

NameSizes == {256, 65535}

BodySizes == {0, 5, 8 * 1024 * 1024, 8 * 1024 * 1024 + 1, 2130706432}

Cut(bytes, tail, cut) ==
    IF cut >= Len(bytes) + tail THEN [bytes |-> bytes, tail |-> tail]
    ELSE IF cut >= Len(bytes) THEN [bytes |-> bytes, tail |-> cut - Len(bytes)]
    ELSE [bytes |-> SubSeq(bytes, 1, cut), tail |-> 0]

Cuts(name_size, input_size) ==
    {0, 1, 2, 2 + name_size - 1, 2 + name_size, 2 + name_size + 3,
     2 + name_size + 4, 2 + name_size + 4 + input_size - 1,
     2 + name_size + 4 + input_size}

RequestStream(q) ==
    Cut(to_be_bytes(q.name_size, 2) \o q.name \o to_be_bytes(q.input_size, 4),
        q.input_size, q.cut)

ResponseStream(q) == Cut(to_be_bytes(q.output_size, 4), q.output_size, q.cut)

NotRun == [ok |-> FALSE, error |-> "none", consumed |-> 0, name |-> <<>>, input |-> 0]

InitRpc ==
    /\ Constructed
    /\ \/ \E name \in Names, size \in BodySizes :
              \E cut \in Cuts(Len(name), size) :
                  hist = [op |-> "read_action", done |-> FALSE,
                          name_size |-> Len(name), name |-> name,
                          input_size |-> size, cut |-> cut, out |-> NotRun]
       \/ \E name_size \in NameSizes, cut \in {1, 2, 6} :
              hist = [op |-> "read_action", done |-> FALSE,
                      name_size |-> name_size, name |-> <<>>,
                      input_size |-> 0, cut |-> cut, out |-> NotRun]
       \/ \E tx \in {"ok", "write", "flush"}, size \in BodySizes,
             wellformed \in BOOLEAN :
              \E cut \in {0, 3, 4, 4 + size - 1, 4 + size} :
                  hist = [op |-> "execute", done |-> FALSE, tx |-> tx,
                          output_size |-> size, cut |-> cut,
                          wellformed |-> wellformed, out |-> "none"]

ReadAction ==
    /\ hist.op = "read_action"
    /\ ~hist.done
    /\ hist' = [hist EXCEPT !.done = TRUE, !.out = read_action(RequestStream(hist))]
    /\ FrameUnchanged

Execute ==
    /\ hist.op = "execute"
    /\ ~hist.done
    /\ \E first \in {"tx", "rx"} :
           hist' = [hist EXCEPT !.done = TRUE,
                       !.out = execute(hist.tx, ResponseStream(hist),
                                       hist.wellformed, first)]
    /\ FrameUnchanged

NextRpc == ReadAction \/ Execute

SpecRpc == InitRpc /\ [][NextRpc]_vars

(***************************************************************************)
(* SpecPeer: endpoint B runs this code on an established channel, and the  *)
(* other end of the transport is an arbitrary peer: it sends any frames it *)
(* likes, whatever credit it holds, and takes B's frames off the wire.     *)
(***************************************************************************)
PeerFrames ==
    {FrameChannelData(1, Bytes(0, l)) : l \in 0 .. MaxPeerLen}
        \cup {FrameChannelData(MaxIds, <<>>), FramePing,
              FrameChannelAdjust(1, 1, 1)}

PeerSend(f) ==
    /\ hist.peer > 0
    /\ hist' = [hist EXCEPT !.peer = @ - 1]
    /\ transport' = [transport EXCEPT !["A"] = Append(@, f)]
    /\ UNCHANGED <<frame_q, cmd_q, conn, channels, sender_shared,
                   receiver_shared, senders, receivers, requests, enq>>

PeerTake ==
    /\ transport["B"] # <<>>
    /\ transport' = [transport EXCEPT !["B"] = Tail(@)]
    /\ UNCHANGED <<frame_q, cmd_q, conn, channels, sender_shared,
                   receiver_shared, senders, receivers, requests, enq, hist>>

InitPeer ==
    /\ Established
    /\ hist = [opens |-> 0, pings |-> [e \in Endpoints |-> 0],
               bytes |-> 0, closes |-> 0,
               writers |-> {}, readers |-> {"B"}, peer |-> MaxPeerFrames]

NextPeer ==
    \/ \E f \in PeerFrames : PeerSend(f)
    \/ PeerTake
    \/ Transmit("B")
    \/ Receive("B")
    \/ \E k \in Keys, len \in 1 .. MaxBuf, t \in Timings : poll_read(k, len, t)

SpecPeer == InitPeer /\ [][NextPeer]_vars


(***************************************************************************)
(* SpecProto: endpoint B runs this code; it holds one established channel  *)
(* and may open another.  The other end of the transport is an arbitrary   *)
(* peer that sends any sequence of control frames: replies nobody asked    *)
(* for, frames for channels B does not know, pongs, Close.                 *)
(***************************************************************************)
ProtoFrames ==
    {FramePong, FrameClose,
     FrameChannelAccept(MaxIds, 1, INITIAL_FRAME_CREDIT, INITIAL_BYTE_CREDIT),
     FrameChannelReject(MaxIds, <<>>),
     FrameChannelData(MaxIds, Bytes(0, 1)),
     FrameChannelAdjust(MaxIds, 1, 1),
     FrameChannelClose(MaxIds),
     FrameChannelClosed(MaxIds),
     InvalidFrame}

(* The peer shuts its sending side: B's transport stream ends after the    *)
(* frames already on the wire.                                             *)
PeerEnd ==
    /\ hist.peer > 0
    /\ hist' = [hist EXCEPT !.peer = 0]
    /\ transport' = [transport EXCEPT !["A"] = Append(@, EndOfStream)]
    /\ UNCHANGED <<frame_q, cmd_q, conn, channels, sender_shared,
                   receiver_shared, senders, receivers, requests, enq>>

InitProto ==
    /\ Established
    /\ hist = [opens |-> 1, pings |-> [e \in Endpoints |-> 0],
               bytes |-> 0, closes |-> 0,
               writers |-> {"B"}, readers |-> {"B"}, peer |-> MaxProtoFrames]

NextProto ==
    \/ \E f \in ProtoFrames : PeerSend(f)
    \/ PeerEnd
    \/ PeerTake
    \/ Open("B")
    \/ HandleCmd("B")
    \/ Transmit("B")
    \/ Receive("B")
    \/ \E k \in Keys : poll_read(k, 1, <<FALSE, FALSE>>)
    \/ \E k \in Keys : poll_flush(k)

SpecProto == InitProto /\ [][NextProto]_vars

(***************************************************************************)
(* SpecLive: one writer task and one reader task on an established         *)
(* channel, both connections polled fairly.  A task that got Pending runs  *)
(* again only when its waker was taken; the writer writes until it was     *)
(* given all its bytes and then flushes; the reader keeps reading.         *)
(***************************************************************************)
Runnable(half) == half.result # "Pending" \/ half.woken

WriterStep(k) ==
    /\ k \in DOMAIN senders
    /\ Runnable(senders[k])
    /\ IF hist.bytes > 0
       THEN \E len \in 1 .. MaxBuf : poll_write(k, len)
       ELSE senders[k].has_pending /\ poll_flush(k)

ReaderStep(k) ==
    /\ k \in DOMAIN receivers
    /\ Runnable(receivers[k])
    /\ \E len \in 1 .. MaxBuf, t \in Timings : poll_read(k, len, t)

NextLive ==
    \/ \E e \in Endpoints : Transmit(e)
    \/ \E e \in Endpoints : Receive(e)
    \/ \E k \in Keys : WriterStep(k)
    \/ \E k \in Keys : ReaderStep(k)

Fairness ==
    /\ \A e \in Endpoints : WF_vars(Transmit(e)) /\ WF_vars(Receive(e))
    /\ \A k \in Keys : WF_vars(WriterStep(k)) /\ WF_vars(ReaderStep(k))

SpecLive == InitData /\ [][NextLive]_vars /\ Fairness

(***************************************************************************)
(* Properties.                                                             *)
(***************************************************************************)

(* C3: on every connection the channel ids placed in outgoing              *)
(* ChannelRequest / ChannelAccept frames are strictly increasing (so no id *)
(* is used twice) and never the null id.                                   *)
NoIdReuse ==
    \A e \in Endpoints :
        LET ids == conn[e].ids
        IN  /\ \A i \in 1 .. Len(ids) : ids[i] # NULL
            /\ \A i, j \in 1 .. Len(ids) : i < j => ids[i] < ids[j]
            /\ \A i \in 1 .. Len(frame_q[e]) :
                   frame_q[e][i].tag \in {"ChannelRequest", "ChannelAccept"}
                       => frame_q[e][i].sender_id # NULL

(* An endpoint that both opened a channel and accepted one has assigned    *)
(* two ids.                                                                *)
NoIdReuseWitness ==
    \E e \in Endpoints :
        /\ Len(conn[e].ids) = 2
        /\ conn[e].pending_requests # {}
        /\ DOMAIN channels[e] # {}

(* C4: the frames on the transport followed by the frames still queued are *)
(* exactly the most recently enqueued frames in enqueue order, and the     *)
(* number handed to the transport is the number enqueued minus the queue:  *)
(* no frame is lost, duplicated or overtaken.                              *)
OutboundFifo ==
    \A e \in Endpoints :
        LET w == transport[e] \o frame_q[e]
        IN  /\ \A i \in 1 .. Len(w) : w[i].n = enq[e] - Len(w) + i
            /\ conn[e].frames_sent = enq[e] - Len(frame_q[e])

(* Frames of a sender and of the connection itself wait in one queue while *)
(* earlier ones are on the transport.                                      *)
OutboundFifoWitness ==
    \E e \in Endpoints :
        /\ transport[e] # <<>>
        /\ \E i, j \in 1 .. Len(frame_q[e]) :
               /\ frame_q[e][i].tag = "ChannelData"
               /\ frame_q[e][j].tag \in {"Ping", "Pong", "ChannelClosed"}

(* C10: the pings of a connection that are not yet answered are the Ping   *)
(* frames on their way to the peer and the Pong frames on their way back;  *)
(* there is at most one, and none when the connection is ready to ping.    *)
Count(q, tag) == Cardinality({i \in 1 .. Len(q) : q[i].tag = tag})

Outstanding(e) ==
    Count(frame_q[e], "Ping") + Count(transport[e], "Ping")
        + Count(frame_q[Peer(e)], "Pong") + Count(transport[Peer(e)], "Pong")

OnePingOutstanding ==
    \A e \in Endpoints :
        /\ Outstanding(e) <= 1
        /\ conn[e].pong_received => Outstanding(e) = 0

(* A second ping is outstanding after the first one was answered. *)
OnePingOutstandingWitness ==
    \E e \in Endpoints :
        /\ Outstanding(e) = 1
        /\ conn[e].smoothened_rtt
        /\ ~conn[e].pong_received

(* C1: a sender never has more data outstanding than the peer receiver     *)
(* granted: its unused credit plus the data frames (and their payload      *)
(* bytes) sent and not yet consumed by the reader never exceed the credit  *)
(* the receiver has granted and not seen consumed, and the sender's credit *)
(* never goes negative.                                                    *)
RECURSIVE DataBytes(_, _)
DataBytes(q, id) ==
    IF q = <<>> THEN 0
    ELSE (IF Head(q).tag = "ChannelData" /\ Head(q).receiver_id = id
          THEN Len(Head(q).payload) ELSE 0) + DataBytes(Tail(q), id)

RECURSIVE DataFrames(_, _)
DataFrames(q, id) ==
    IF q = <<>> THEN 0
    ELSE (IF Head(q).tag = "ChannelData" /\ Head(q).receiver_id = id
          THEN 1 ELSE 0) + DataFrames(Tail(q), id)

(* Data of the sender k that left the sender and was not consumed yet. *)
Unconsumed(k) ==
    LET e == k[1]
        id == senders[k].remote_id
        pk == <<Peer(e), id>>
        q == transport[e] \o frame_q[e]
            \o (IF pk \in DOMAIN receiver_shared
                THEN receiver_shared[pk].buffer ELSE <<>>)
    IN  [frames |-> DataFrames(q, id), bytes |-> DataBytes(q, id)]

(* Credit the peer receiver of sender k granted, less what was consumed. *)
Granted(k) ==
    LET pk == <<Peer(k[1]), senders[k].remote_id>>
    IN  IF pk \in DOMAIN receiver_shared
        THEN [frames |-> receiver_shared[pk].granted_frames,
              bytes |-> receiver_shared[pk].granted_bytes]
        ELSE [frames |-> INITIAL_FRAME_CREDIT, bytes |-> INITIAL_BYTE_CREDIT]

CreditSound ==
    \A k \in DOMAIN sender_shared :
        LET ss == sender_shared[k]
        IN  /\ ss.remaining_frame_credit >= 0
            /\ ss.remaining_byte_credit >= 0
            /\ ss.remaining_frame_credit + Unconsumed(k).frames <= Granted(k).frames
            /\ ss.remaining_byte_credit + Unconsumed(k).bytes <= Granted(k).bytes

(* After a replenishment that doubled the window the sender has used all   *)
(* of the byte credit it holds a grant for.                                *)
CreditSoundWitness ==
    \E k \in DOMAIN sender_shared :
        LET pk == <<Peer(k[1]), senders[k].remote_id>>
        IN  /\ pk \in DOMAIN receiver_shared
            /\ receiver_shared[pk].max_byte_credit > INITIAL_BYTE_CREDIT
            /\ Unconsumed(k).bytes > 0
            /\ sender_shared[k].remaining_byte_credit + Unconsumed(k).bytes
                   = Granted(k).bytes

(* C5: what poll_read has delivered on a channel is a prefix of the bytes  *)
(* the peer's poll_write accepted, in the same order (the i-th accepted    *)
(* byte has the value i).                                                  *)
ReadIsPrefix ==
    \A k \in DOMAIN receivers :
        LET pk == <<Peer(k[1]), receivers[k].remote_id>>
            log == receivers[k].log
        IN  /\ log = Bytes(0, Len(log))
            /\ pk \in DOMAIN senders => Len(log) <= senders[pk].written

(* A chunk is partly read after earlier chunks were read completely. *)
ReadIsPrefixWitness ==
    \E k \in DOMAIN receivers :
        /\ Len(receivers[k].log) >= 3
        /\ receivers[k].has_pending
        /\ receivers[k].offset > MIN_FRAME_SIZE

(* C6: once ChannelClose for a channel was dispatched, every poll_write,   *)
(* poll_flush and poll_close of its sender fails with BrokenPipe; the      *)
(* dispatch wakes a writer parked for credit, and no waker stays           *)
(* registered on a closed sender.                                          *)
SenderPolled(k) ==
    \/ poll_flush(k)
    \/ poll_close(k)
    \/ \E len \in 1 .. MaxBuf : poll_write(k, len)

WriterSeesClose ==
    [][\A k \in DOMAIN senders :
           /\ (sender_shared[k].closed /\ SenderPolled(k))
                  => senders'[k].result = "BrokenPipe"
           /\ (~sender_shared[k].closed /\ sender_shared'[k].closed
                  /\ sender_shared[k].waker) => senders'[k].woken
           /\ sender_shared'[k].closed => ~sender_shared'[k].waker]_vars

(* A writer without credit and with a staged chunk polled after the close. *)
WriterSeesCloseWitness ==
    \E k \in DOMAIN senders :
        /\ sender_shared[k].closed
        /\ senders[k].result = "BrokenPipe"
        /\ senders[k].has_pending
        /\ sender_shared[k].remaining_frame_credit = 0

(* C7: after ChannelClosed was dispatched, a poll_read that finds no       *)
(* pending chunk and an empty receive queue returns Ready(0).              *)
ReaderSeesEof ==
    [][\A k \in DOMAIN receivers :
           (/\ receiver_shared[k].closed
            /\ ~receivers[k].has_pending
            /\ receiver_shared[k].buffer = <<>>
            /\ \E len \in 1 .. MaxBuf, t \in Timings : poll_read(k, len, t))
               => receivers'[k].result = "Ready0"]_vars

(* C8: the reader is told that the stream ended only when no data frame is *)
(* left in the receive queue.                                              *)
NoDataLostAtClose ==
    \A k \in DOMAIN receivers :
        receivers[k].chunk_result = "None" => receiver_shared[k].buffer = <<>>

(* C2: whatever the peer sends, a ChannelData frame for a known channel    *)
(* that exceeds the credit granted to the peer and not yet used by it      *)
(* (the frames still in the receive queue are used credit) ends the        *)
(* dispatch with ProtocolViolation and leaves the receive queue as it was. *)
Arriving(e) == Head(transport[Peer(e)])

BeyondCredit(e) ==
    LET f == Arriving(e)
        rs == receiver_shared[<<e, f.receiver_id>>]
    IN  \/ rs.granted_frames - Len(rs.buffer) <= 0
        \/ Len(f.payload) > rs.granted_bytes - SumSeq([i \in 1 .. Len(rs.buffer) |->
                                                        Len(rs.buffer[i].payload)])

DataBeyondCreditRejected ==
    [][\A e \in Endpoints :
           (/\ transport[Peer(e)] # <<>>
            /\ Receive(e)
            /\ Arriving(e).tag = "ChannelData"
            /\ Known(e, Arriving(e).receiver_id)
            /\ BeyondCredit(e))
               => /\ conn'[e].result = "ProtocolViolation"
                  /\ receiver_shared' = receiver_shared]_vars

(* C9: a suspended writer is resumed, and everything the writer was given  *)
(* is eventually read: the bytes read equal the bytes written.             *)
AllReceived ==
    /\ hist.bytes = 0
    /\ \A k \in DOMAIN receivers :
           k[1] \in hist.readers =>
               receivers[k].log = Bytes(0, DataMaxBytes)

WriterResult(k) == IF k \in DOMAIN senders THEN senders[k].result ELSE "none"

BackpressureProgress ==
    /\ \A k \in Keys : (WriterResult(k) = "Pending") ~> (WriterResult(k) = "Ready")
    /\ <>[]AllReceived

(* The writer is parked without frame credit while the reader has not yet  *)
(* read everything that was sent.                                          *)
BackpressureProgressWitness ==
    \E k \in DOMAIN senders :
        /\ senders[k].result = "Pending"
        /\ sender_shared[k].waker
        /\ sender_shared[k].remaining_frame_credit = 0
        /\ hist.bytes > 0

(* C11: a Pong that is dispatched while no ping is outstanding (none was   *)
(* sent yet, or the last one was answered) ends the dispatch with          *)
(* ProtocolViolation.                                                      *)
UnexpectedPongFails ==
    [][\A e \in Endpoints :
           (/\ transport[Peer(e)] # <<>>
            /\ Receive(e)
            /\ Arriving(e).tag = "Pong"
            /\ conn[e].pong_received)
               => conn'[e].result = "ProtocolViolation"]_vars

(* C12: a channel id is a key of the channel map only while the channel is *)
(* not fully torn down: once both halves were dropped the entry is gone.   *)
TornDown(k) == ~senders[k].alive /\ ~receivers[k].alive

MapHoldsLiveChannels ==
    \A e \in Endpoints : \A id \in DOMAIN channels[e] : ~TornDown(<<e, id>>)

(* C13: a ChannelAccept for a pending local id i hands the open that was   *)
(* assigned i a live Channel bound to (i, the accept's sender id); a       *)
(* ChannelReject for i hands it the rejection with the peer's reason and   *)
(* creates no channel; either removes i from the pending opens; no other   *)
(* open's result changes, results change only by such a reply, and a       *)
(* resolved open keeps its result.                                         *)
Replies(e, tag) ==
    /\ transport[Peer(e)] # <<>>
    /\ Receive(e)
    /\ Arriving(e).tag = tag
    /\ Arriving(e).receiver_id \in conn[e].pending_requests

OthersKept(e, i) ==
    \A j \in DOMAIN conn[e].results \ {i} : conn'[e].results[j] = conn[e].results[j]

AcceptResolves(e) ==
    LET i == Arriving(e).receiver_id
        r == Arriving(e).sender_id
    IN  /\ conn'[e].results[i] = [kind |-> "Channel", local_id |-> i,
                                  remote_id |-> r, reason |-> <<>>]
        /\ conn'[e].pending_requests = conn[e].pending_requests \ {i}
        /\ channels'[e][i] = [local_id |-> i, remote_id |-> r]
        /\ senders'[<<e, i>>].alive /\ senders'[<<e, i>>].remote_id = r
        /\ receivers'[<<e, i>>].alive /\ receivers'[<<e, i>>].remote_id = r
        /\ OthersKept(e, i)

RejectResolves(e) ==
    LET i == Arriving(e).receiver_id
    IN  /\ conn'[e].results[i].kind = "Rejected"
        /\ conn'[e].results[i].reason = Arriving(e).payload
        /\ conn'[e].pending_requests = conn[e].pending_requests \ {i}
        /\ channels' = channels
        /\ OthersKept(e, i)

OpenResolution ==
    [][\A e \in Endpoints :
           /\ Replies(e, "ChannelAccept") => AcceptResolves(e)
           /\ Replies(e, "ChannelReject") => RejectResolves(e)
           /\ \A i \in DOMAIN conn[e].results :
                  /\ conn[e].results[i].kind # "Pending"
                         => conn'[e].results[i] = conn[e].results[i]
                  /\ conn'[e].results[i] # conn[e].results[i]
                         => \/ Replies(e, "ChannelAccept") /\ Arriving(e).receiver_id = i
                            \/ Replies(e, "ChannelReject") /\ Arriving(e).receiver_id = i]_vars

(* One endpoint had one open accepted and another rejected with a reason. *)
OpenResolutionWitness ==
    \E e \in Endpoints :
        \E i, j \in DOMAIN conn[e].results :
            /\ conn[e].results[i].kind = "Channel"
            /\ conn[e].results[j].kind = "Rejected"
            /\ conn[e].results[j].reason # <<>>

(* C14: a ChannelAccept or ChannelReject whose receiver id has no pending  *)
(* open ends the dispatch with ProtocolViolation and resolves nothing.     *)
UnsolicitedReplyFails ==
    [][\A e \in Endpoints :
           (/\ transport[Peer(e)] # <<>>
            /\ Receive(e)
            /\ Arriving(e).tag \in {"ChannelAccept", "ChannelReject"}
            /\ Arriving(e).receiver_id \notin conn[e].pending_requests)
               => /\ conn'[e].result = "ProtocolViolation"
                  /\ conn'[e].results = conn[e].results
                  /\ conn'[e].pending_requests = conn[e].pending_requests]_vars

(* A reply for an open that an earlier reply had already resolved. *)
UnsolicitedReplyFailsWitness ==
    \E e \in Endpoints :
        /\ conn[e].result = "ProtocolViolation"
        /\ conn[e].last.tag \in {"ChannelAccept", "ChannelReject"}
        /\ conn[e].last.receiver_id \in DOMAIN conn[e].results
        /\ conn[e].results[conn[e].last.receiver_id].kind # "Pending"

(* C15: every channel request delivered as an event is answered exactly    *)
(* once: its handle is still held, or its accept waits in the command      *)
(* queue, or one ChannelAccept or ChannelReject whose receiver id is the   *)
(* requester's sender id was enqueued, never two; a dropped handle is      *)
(* answered by a ChannelReject with an empty reason.                       *)
Occurrences(seq, x) == Cardinality({i \in 1 .. Len(seq) : seq[i] = x})

Answers(e, r) ==
    Cardinality({i \in 1 .. Len(conn[e].responses) :
                     conn[e].responses[i].receiver_id = r})

AcceptQueued(e, r) ==
    Cardinality({i \in 1 .. Len(cmd_q[e]) :
                     /\ cmd_q[e][i].type = "AcceptChannel"
                     /\ cmd_q[e][i].frame.receiver_id = r})

Held(e, r) == IF r \in requests[e] THEN 1 ELSE 0

AnsweredOnce ==
    \A e \in Endpoints : \A r \in 0 .. MaxIds :
        /\ Answers(e, r) + AcceptQueued(e, r) + Held(e, r)
               = Occurrences(conn[e].delivered, r)
        /\ Answers(e, r) <= 1

(* The answer recorded last is the frame enqueued last. *)
AnswerEnqueued(e) ==
    Len(conn'[e].responses) > Len(conn[e].responses)
        => /\ frame_q'[e] # <<>>
           /\ Response(frame_q'[e][Len(frame_q'[e])])
                  = conn'[e].responses[Len(conn'[e].responses)]

OneResponse ==
    [][/\ AnsweredOnce'
       /\ \A e \in Endpoints :
              /\ AnswerEnqueued(e)
              /\ \A r \in Ids :
                     DropRequest(e, r)
                         => conn'[e].responses[Len(conn'[e].responses)]
                                = [tag |-> "ChannelReject", receiver_id |-> r,
                                   reason |-> <<>>]]_vars

(* One endpoint accepted one request and dropped the handle of another. *)
OneResponseWitness ==
    \E e \in Endpoints :
        \E i, j \in 1 .. Len(conn[e].responses) :
            /\ conn[e].responses[i].tag = "ChannelAccept"
            /\ conn[e].responses[j].tag = "ChannelReject"
            /\ conn[e].responses[j].reason = <<>>

(* C16: a ChannelData, ChannelAdjust, ChannelClose or ChannelClosed frame  *)
(* whose receiver id is not a key of the channel map is dropped: the       *)
(* dispatch yields no event and no error, nothing is enqueued, and no      *)
(* channel's state and no request handle changes.                          *)
ChannelFrameTags == {"ChannelData", "ChannelAdjust", "ChannelClose", "ChannelClosed"}

UnknownChannelDropped ==
    [][\A e \in Endpoints :
           (/\ transport[Peer(e)] # <<>>
            /\ Receive(e)
            /\ Arriving(e).tag \in ChannelFrameTags
            /\ Arriving(e).receiver_id \notin DOMAIN channels[e])
               => /\ conn'[e].result = "Pending"
                  /\ conn'[e] = [conn[e] EXCEPT !.result = "Pending",
                                                !.frames_received = @ + 1,
                                                !.last = conn'[e].last]
                  /\ UNCHANGED <<channels, sender_shared, receiver_shared,
                                 senders, receivers, frame_q, cmd_q, requests>>]_vars

(* The peer's second frame, a ChannelClose for a channel the connection    *)
(* does not know, was dropped and the connection is healthy.               *)
UnknownChannelDroppedWitness ==
    \E e \in Endpoints :
        /\ conn[e].last.tag = "ChannelClose"
        /\ conn[e].last.receiver_id \notin DOMAIN channels[e]
        /\ conn[e].result = "Pending"
        /\ conn[e].frames_received >= 6

(* C17: once the transport reported the end of its stream the connection's *)
(* event stream has a terminal result; it does not stay at Pending.        *)
TerminalResults == {"End", "Closed", "ProtocolViolation", "TransportError"}

EndOfStreamTerminates ==
    \A e \in Endpoints : conn[e].exhausted => conn[e].result \in TerminalResults

(* C18: after the Close frame was dispatched (Closed was emitted) the      *)
(* connection dispatches no further inbound frame, emits no event and      *)
(* changes no channel state.                                               *)
Quiet(e) ==
    /\ conn'[e].frames_received = conn[e].frames_received
    /\ conn'[e].result = conn[e].result
    /\ conn'[e].last = conn[e].last
    /\ channels'[e] = channels[e]
    /\ \A k \in DOMAIN receiver_shared :
           k[1] = e => (k \in DOMAIN receiver_shared'
                           /\ receiver_shared'[k].buffer = receiver_shared[k].buffer
                           /\ receiver_shared'[k].closed = receiver_shared[k].closed)
    /\ \A k \in DOMAIN sender_shared :
           k[1] = e => (k \in DOMAIN sender_shared'
                           /\ sender_shared'[k].closed = sender_shared[k].closed)
    /\ requests'[e] = requests[e]

(* A step of Connection::poll_event. *)
ConnectionPolled(e) == Receive(e) \/ Transmit(e) \/ HandleCmd(e) \/ Ping(e)

TerminalAfterClose ==
    [][\A e \in Endpoints :
           (conn[e].closed /\ ConnectionPolled(e)) => Quiet(e)]_vars

(* C19: after a poll returned a protocol violation the connection sends no *)
(* frame, dispatches no inbound frame and emits no event.                  *)
TerminalAfterViolation ==
    [][\A e \in Endpoints :
           (conn[e].result = "ProtocolViolation" /\ ConnectionPolled(e))
               => /\ Quiet(e)
                  /\ conn'[e].frames_sent = conn[e].frames_sent]_vars

(* C20: once the connection of a channel has terminated (Close dispatched, *)
(* transport ended, or a poll returned a protocol violation), a reader     *)
(* that polls with nothing left to read is told that the stream ended     *)
(* instead of being parked, and a writer that polls gets BrokenPipe.       *)
Terminated(e) ==
    conn[e].closed \/ conn[e].exhausted \/ conn[e].result = "ProtocolViolation"

ChannelsSeeTermination ==
    [][/\ \A k \in DOMAIN receivers :
              (/\ Terminated(k[1])
               /\ ~receivers[k].has_pending
               /\ receiver_shared[k].buffer = <<>>
               /\ \E len \in 1 .. MaxBuf, t \in Timings : poll_read(k, len, t))
                  => /\ receivers'[k].chunk_result = "None"
                     /\ ~receiver_shared'[k].waker
       /\ \A k \in DOMAIN senders :
              (Terminated(k[1]) /\ SenderPolled(k))
                  => senders'[k].result = "BrokenPipe"]_vars

(***************************************************************************)
(* C21: at the values of the source the receiver's two maxima start at 128 *)
(* frames and 16 KiB, no read ever lowers them, they never exceed 1024     *)
(* frames and 1 GiB (2^20 KiB), and doubling them never reaches the value  *)
(* at which a u32 wraps.                                                   *)
(***************************************************************************)
CreditGrowth ==
    /\ \A k \in DOMAIN receiver_shared :
           /\ receiver_shared[k].max_frame_credit = 128
           /\ receiver_shared[k].max_byte_credit = 16
    /\ [][\A k \in DOMAIN receiver_shared :
             /\ receiver_shared'[k].max_frame_credit >= receiver_shared[k].max_frame_credit
             /\ receiver_shared'[k].max_byte_credit >= receiver_shared[k].max_byte_credit
             /\ receiver_shared'[k].max_frame_credit <= 1024
             /\ receiver_shared'[k].max_byte_credit <= 1024 * 1024
             /\ receiver_shared[k].max_frame_credit * 2 < SourceCredits.wrap
             /\ receiver_shared[k].max_byte_credit * 2 < SourceCredits.wrap]_vars

(* Both maxima have been doubled up to their caps, and reads continue. *)
CreditGrowthWitness ==
    /\ receiver_shared[<<"B", 1>>].max_frame_credit = 1024
    /\ receiver_shared[<<"B", 1>>].max_byte_credit = 1024 * 1024
    /\ receiver_shared[<<"B", 1>>].remaining_frame_credit < 1024

(***************************************************************************)
(* C22: for every variant and every value of its fields, parsing the       *)
(* message built by the constructor succeeds with the same variant and     *)
(* every getter returns the constructor's argument; integers are laid out  *)
(* big-endian and the variable tail is the remainder of the message.       *)
(***************************************************************************)
BigEndian4(value) ==
    <<value \div 16777216, (value \div 65536) % 256, (value \div 256) % 256,
      value % 256>>

OnTheWire(type, value) ==
    CASE type = "ChannelId" -> <<0, 0, 0, 0>> \o BigEndian4(value)
      [] type = "u32" -> BigEndian4(value)
      [] OTHER -> value

RECURSIVE Layout(_, _)
Layout(fields, values) ==
    IF fields = <<>>
    THEN <<>>
    ELSE OnTheWire(Head(fields).type, Head(values)) \o Layout(Tail(fields), Tail(values))

Built == hist.variant.name # "none"

RoundTrip ==
    /\ (Built /\ hist.stage \in {"built", "parsed", "read"}) =>
           hist.bytes = <<hist.variant.tag>> \o Layout(hist.variant.fields, hist.values)
    /\ (Built /\ hist.stage \in {"parsed", "read"}) =>
           hist.parsed.ok /\ hist.parsed.name = hist.variant.name
    /\ (Built /\ hist.stage = "read") => hist.fields = hist.values

(* A ChannelAccept with four distinct multi-byte integers has been built,  *)
(* parsed and read back.                                                   *)
RoundTripWitness ==
    /\ hist.stage = "read"
    /\ hist.parsed.ok
    /\ hist.variant.name = "ChannelAccept"
    /\ hist.values = <<258, 2147483647, 16909060, 128>>
    /\ hist.fields = hist.values
    /\ Len(hist.bytes) = 25

(***************************************************************************)
(* C23: Frame::parse answers InvalidTag when the first byte is none of the *)
(* eleven tags, InvalidLength when the message is empty or shorter than    *)
(* the fixed portion of its variant, and succeeds on every other message.  *)
(***************************************************************************)
FixedPortion ==
    (0 :> 17) @@ (255 :> 1) @@ (16 :> 17) @@ (17 :> 25) @@ (18 :> 9) @@ (19 :> 9)
        @@ (20 :> 17) @@ (21 :> 9) @@ (23 :> 9) @@ (32 :> 1) @@ (33 :> 1)

ParseRejects ==
    hist.stage = "parsed" =>
        IF hist.bytes = <<>>
        THEN ~hist.parsed.ok /\ hist.parsed.error = "InvalidLength"
        ELSE IF hist.bytes[1] \notin DOMAIN FixedPortion
        THEN ~hist.parsed.ok /\ hist.parsed.error = "InvalidTag"
        ELSE IF Len(hist.bytes) < FixedPortion[hist.bytes[1]]
        THEN ~hist.parsed.ok /\ hist.parsed.error = "InvalidLength"
        ELSE hist.parsed.ok

(* A ChannelAccept message one byte short of its 25 fixed bytes has been   *)
(* rejected for its length.                                                *)
ParseRejectsWitness ==
    /\ hist.stage = "parsed"
    /\ hist.variant.name = "none"
    /\ Len(hist.bytes) = 24
    /\ hist.bytes[1] = 17
    /\ hist.parsed.error = "InvalidLength"

(***************************************************************************)
(* C24: every open() call ends with exactly one of Channel, Rejected and   *)
(* Closed and keeps it; it ends with Closed when the Connection was        *)
(* already dropped at the call, or is dropped while the call is still      *)
(* waiting for its ChannelAccept / ChannelReject, and only then.           *)
(***************************************************************************)
Outcomes == {"Channel", "Rejected", "Closed"}

OpenOutcome ==
    [][\A e \in Endpoints :
           /\ \A i \in DOMAIN conn[e].calls :
                  /\ conn[e].calls[i] \in Outcomes
                         => conn'[e].calls[i] = conn[e].calls[i]
                  /\ (conn[e].calls[i] = "Waiting" /\ conn'[e].dropped)
                         => conn'[e].calls[i] = "Closed"
           /\ \A i \in DOMAIN conn'[e].calls :
                  /\ conn'[e].calls[i] \in Outcomes \cup {"Waiting", "Dropped"}
                  /\ conn'[e].calls[i] = "Closed" => conn'[e].dropped
                  /\ (i \notin DOMAIN conn[e].calls /\ conn[e].dropped)
                         => conn'[e].calls[i] = "Closed"
                  /\ (i \notin DOMAIN conn[e].calls /\ ~conn[e].dropped)
                         => conn'[e].calls[i] = "Waiting"]_vars

(* The first open got its Channel; the second had its request handled and  *)
(* was closed by the drop of the Connection.                               *)
OpenOutcomeWitness ==
    /\ conn["A"].dropped
    /\ conn["A"].calls = <<"Channel", "Closed">>
    /\ 2 \in DOMAIN conn["A"].notifier

(***************************************************************************)
(* C25: when the ChannelAccept for a request whose open future was dropped *)
(* is dispatched, the poll does not fail, the channel is handed to nobody  *)
(* and a ChannelClose for it is enqueued; a ChannelReject for such a       *)
(* request is dispatched without error and without any other effect.       *)
(***************************************************************************)
LateReply(e) ==
    /\ transport[Peer(e)] # <<>>
    /\ Head(transport[Peer(e)]).tag \in {"ChannelAccept", "ChannelReject"}
    /\ Head(transport[Peer(e)]).receiver_id \in conn[e].pending_requests
    /\ conn[e].calls[conn[e].notifier[Head(transport[Peer(e)]).receiver_id]] = "Dropped"
    /\ Receive(e)

LateReplyAbsorbed ==
    [][\A e \in Endpoints :
           LateReply(e) =>
               LET f == Head(transport[Peer(e)])
                   k == <<e, f.receiver_id>>
               IN  /\ conn'[e].result = "Pending"
                   /\ conn'[e].calls = conn[e].calls
                   /\ f.receiver_id \notin conn'[e].pending_requests
                   /\ f.tag = "ChannelAccept" =>
                          /\ Len(frame_q'[e]) = Len(frame_q[e]) + 1
                          /\ frame_q'[e][Len(frame_q'[e])].tag = "ChannelClose"
                          /\ frame_q'[e][Len(frame_q'[e])].receiver_id = f.sender_id
                          /\ ~senders'[k].alive
                          /\ ~receivers'[k].alive
                   /\ f.tag = "ChannelReject" =>
                          /\ frame_q'[e] = frame_q[e]
                          /\ channels' = channels]_vars

(* The accept of a dropped open has been dispatched at A: no error, the    *)
(* halves of channel 1 are gone and its ChannelClose is queued.            *)
LateReplyAbsorbedWitness ==
    /\ conn["A"].last.tag = "ChannelAccept"
    /\ conn["A"].result = "Pending"
    /\ conn["A"].calls[1] = "Dropped"
    /\ <<"A", 1>> \in DOMAIN receivers
    /\ ~receivers[<<"A", 1>>].alive
    /\ \E i \in DOMAIN frame_q["A"] : frame_q["A"][i].tag = "ChannelClose"

(***************************************************************************)
(* C26: read_action returns the request exactly when the name is at most   *)
(* 255 bytes of valid UTF-8 and the input at most 8 MiB and the stream     *)
(* delivers all of it; a longer name gives ActionNameTooLarge after the 2  *)
(* size bytes, an ill-formed name InvalidActionName, a longer input        *)
(* ActionInputTooLarge after the 4 size bytes, and a stream that stops     *)
(* early gives Read.                                                       *)
(***************************************************************************)
ValidNames ==
    {<<>>, <<112, 105, 110, 103>>, <<195, 169>>, <<226, 130, 172>>,
     <<240, 159, 146, 150>>, [i \in 1 .. 255 |-> 97]}

Fails(out, error) == ~out.ok /\ out.error = error

ReadActionContract ==
    (hist.op = "read_action" /\ hist.done) =>
        LET at == 2 + hist.name_size
            out == hist.out
        IN  IF hist.cut < 2 THEN Fails(out, "Read")
            ELSE IF hist.name_size > 255
            THEN Fails(out, "ActionNameTooLarge") /\ out.consumed = 2
            ELSE IF hist.cut < at THEN Fails(out, "Read")
            ELSE IF hist.name \notin ValidNames THEN Fails(out, "InvalidActionName")
            ELSE IF hist.cut < at + 4 THEN Fails(out, "Read")
            ELSE IF hist.input_size > 8388608
            THEN Fails(out, "ActionInputTooLarge") /\ out.consumed = at + 4
            ELSE IF hist.cut < at + 4 + hist.input_size THEN Fails(out, "Read")
            ELSE /\ out.ok
                 /\ out.name = hist.name
                 /\ out.input = hist.input_size

(* A request named "ping" announcing one byte more than 8 MiB of input has *)
(* been refused after its first 10 bytes.                                  *)
ReadActionContractWitness ==
    /\ hist.op = "read_action"
    /\ hist.done
    /\ hist.name = <<112, 105, 110, 103>>
    /\ hist.input_size = 8388609
    /\ hist.cut >= 10
    /\ hist.out.error = "ActionInputTooLarge"
    /\ hist.out.consumed = 10

(***************************************************************************)
(* C27: execute reports a failure of the write or the flush as Write, a    *)
(* failure of a read as Read, an announced output above 8 MiB as           *)
(* OutputTooLarge and an undecodable body as MalformedOutput.              *)
(***************************************************************************)
ExecuteClassifies ==
    (hist.op = "execute" /\ hist.done) =>
        LET too_large == hist.cut >= 4 /\ hist.output_size > 8388608
            short == hist.cut < 4 \/ (~too_large /\ hist.cut < 4 + hist.output_size)
        IN  /\ hist.out = "Write" => hist.tx # "ok"
            /\ hist.out = "Read" => short
            /\ hist.out = "OutputTooLarge" => too_large
            /\ hist.out = "MalformedOutput" => ~hist.wellformed
            /\ (hist.tx # "ok" /\ ~short /\ ~too_large) => hist.out = "Write"
            /\ (hist.tx = "ok" /\ short) => hist.out = "Read"

(***************************************************************************)
(* Two endpoints that open channels towards each other, accept every       *)
(* request; A's application drops the receivers of the channels it holds   *)
(* and B's closes the senders of the channels it holds.                    *)
(***************************************************************************)
InitPair ==
    /\ Constructed
    /\ hist = [opens |-> ConnMaxOpens,
               pings |-> [e \in Endpoints |-> 0],
               bytes |-> 0, closes |-> PairMaxCloses,
               writers |-> {"B"}, readers |-> {"A"}, peer |-> 0]

NextPair ==
    \/ \E e \in Endpoints : Open(e)
    \/ \E e \in Endpoints, r \in Ids : Accept(e, r)
    \/ \E e \in Endpoints : HandleCmd(e)
    \/ WireNext
    \/ \E k \in Keys : poll_close(k)
    \/ \E k \in Keys : DropReceiver(k)

SpecPair == InitPair /\ [][NextPair]_vars

(***************************************************************************)
(* C28: the only Hello of a connection is the first frame enqueued on it,  *)
(* and the first frame the connection hands to its transport is that       *)
(* Hello; no later frame is a Hello.                                       *)
(***************************************************************************)
HelloFirst ==
    /\ [](\A e \in Endpoints : \A i \in DOMAIN frame_q[e] :
              frame_q[e][i].tag = "Hello"
                  <=> (frame_q[e][i].n = 1 /\ i = 1 /\ conn[e].frames_sent = 0))
    /\ [][\A e \in Endpoints :
              Transmit(e) =>
                  (transport'[e][Len(transport'[e])].tag = "Hello"
                       <=> conn[e].frames_sent = 0)]_vars

(* Both connections have sent their Hello and a further frame, and B has   *)
(* dispatched A's Hello and a frame after it.                              *)
HelloFirstWitness ==
    /\ conn["A"].frames_sent >= 2
    /\ conn["B"].frames_sent >= 2
    /\ conn["B"].frames_received >= 2
    /\ \A e \in Endpoints : \A i \in DOMAIN frame_q[e] : frame_q[e][i].tag # "Hello"

(***************************************************************************)
(* C29: processing an AcceptChannel command enqueues the ChannelAccept and *)
(* inserts the channel into the acceptor's map in the step that hands out  *)
(* the Channel; in the acceptor's outbound stream the ChannelAccept of a   *)
(* channel is ahead of every ChannelData, ChannelAdjust, ChannelClose and  *)
(* ChannelClosed for that channel; and every channel frame an endpoint     *)
(* dispatches finds its channel in the map.                                *)
(***************************************************************************)
Outbound(e) == transport[e] \o frame_q[e]

AcceptAhead(e) ==
    \A i, j \in DOMAIN Outbound(e) :
        (/\ Outbound(e)[i].tag \in ChannelFrameTags
         /\ Outbound(e)[j].tag = "ChannelAccept"
         /\ Outbound(e)[j].receiver_id = Outbound(e)[i].receiver_id) => j < i

AcceptProcessed(e) ==
    LET local_id == conn[e].next_channel_id
        k == <<e, local_id>>
        q == frame_q'[e]
    IN  /\ ~Known(e, local_id)
        /\ \A i \in DOMAIN frame_q[e] :
               frame_q[e][i].tag \in ChannelFrameTags =>
                   frame_q[e][i].receiver_id # Head(cmd_q[e]).frame.receiver_id
        /\ Len(q) = Len(frame_q[e]) + 1
        /\ q[Len(q)].tag = "ChannelAccept"
        /\ q[Len(q)].sender_id = local_id
        /\ local_id \in DOMAIN channels'[e]
        /\ channels'[e][local_id].remote_id = q[Len(q)].receiver_id
        /\ k \in DOMAIN senders' /\ senders'[k].alive
        /\ k \in DOMAIN receivers' /\ receivers'[k].alive
        /\ k \notin DOMAIN senders

AcceptOrdering ==
    /\ [](\A e \in Endpoints : AcceptAhead(e))
    /\ [][\A e \in Endpoints :
              /\ (HandleCmd(e) /\ Head(cmd_q[e]).type = "AcceptChannel")
                     => AcceptProcessed(e)
              /\ (Receive(e) /\ Head(transport[Peer(e)]).tag \in ChannelFrameTags)
                     => Known(e, Head(transport[Peer(e)]).receiver_id)]_vars

(* B accepted A's request; A's data reached B's channel and the            *)
(* ChannelAdjust B sent for it reached A's.                                *)
AcceptOrderingWitness ==
    /\ conn["A"].responses = <<>>
    /\ \E i \in DOMAIN conn["B"].responses : conn["B"].responses[i].tag = "ChannelAccept"
    /\ conn["A"].last.tag = "ChannelAdjust"
    /\ Known("A", conn["A"].last.receiver_id)
    /\ conn["B"].last.tag = "ChannelData"
    /\ Known("B", conn["B"].last.receiver_id)

(***************************************************************************)
(* C30: a channel held under local id a with remote id b is mirrored at    *)
(* the peer: b is an id the peer reserved, the peer's channel under b, once *)
(* it exists, has remote id a, and after a completed handshake it exists;  *)
(* both halves carry the handle's remote id; every channel frame in flight *)
(* carries the remote id of exactly one channel of its sender; and a close *)
(* from one half reaches only the paired half's channel.                   *)
(***************************************************************************)
Mirrored(e, a) ==
    LET b == channels[e][a].remote_id
        p == Peer(e)
    IN  /\ channels[e][a].local_id = a
        /\ b \in 1 .. (conn[p].next_channel_id - 1)
        /\ Known(p, b) => channels[p][b].remote_id = a
        /\ (a \in DOMAIN conn[e].results /\ conn[e].results[a].kind = "Channel")
               => Known(p, b) /\ conn[e].results[a].remote_id = b
        /\ senders[<<e, a>>].remote_id = b
        /\ receivers[<<e, a>>].remote_id = b
        /\ \A a2 \in DOMAIN channels[e] : channels[e][a2].remote_id = b => a2 = a
        /\ sender_shared[<<e, a>>].closed
               => Known(p, b) /\ ~receivers[<<p, b>>].alive
        /\ receiver_shared[<<e, a>>].closed
               => Known(p, b) /\ senders[<<p, b>>].result # "none"

IdPairing ==
    \A e \in Endpoints :
        /\ \A a \in DOMAIN channels[e] : Mirrored(e, a)
        /\ \A i \in DOMAIN Outbound(e) :
               Outbound(e)[i].tag \in ChannelFrameTags =>
                   \E a \in DOMAIN channels[e] :
                       channels[e][a].remote_id = Outbound(e)[i].receiver_id

(* A and B each opened one channel, so each channel has different ids at   *)
(* the two endpoints; A dropped the receiver of the channel it opened and  *)
(* the ChannelClose closed the paired sender at B, and only that one.      *)
IdPairingWitness ==
    /\ DOMAIN channels["A"] = {1, 2}
    /\ DOMAIN channels["B"] = {1, 2}
    /\ channels["A"][1].remote_id = 2
    /\ channels["B"][2].remote_id = 1
    /\ channels["A"][2].remote_id = 1
    /\ 1 \in DOMAIN conn["A"].results /\ conn["A"].results[1].kind = "Channel"
    /\ 1 \in DOMAIN conn["B"].results /\ conn["B"].results[1].kind = "Channel"
    /\ ~receivers[<<"A", 1>>].alive
    /\ sender_shared[<<"B", 2>>].closed
    /\ ~sender_shared[<<"B", 1>>].closed

(***************************************************************************)
(* C31: a poll_next_chunk that pops a frame debits one frame and the       *)
(* payload length; if either remaining credit is then below half of its    *)
(* maximum, exactly one ChannelAdjust is enqueued that carries the         *)
(* differences between the (possibly doubled) maxima and the remaining     *)
(* credits, and both remaining credits become the maxima; otherwise        *)
(* nothing is enqueued and the remaining credits are the debited ones.     *)
(***************************************************************************)
Popped(k) ==
    /\ k \in DOMAIN receiver_shared
    /\ receiver_shared[k].buffer # <<>>
    /\ receiver_shared'[k].buffer = Tail(receiver_shared[k].buffer)

PopReplenishes(k) ==
    LET rs == receiver_shared[k]
        after == receiver_shared'[k]
        q == frame_q[k[1]]
        q2 == frame_q'[k[1]]
        frames == rs.remaining_frame_credit - 1
        bytes == rs.remaining_byte_credit - Len(Head(rs.buffer).payload)
        low == \/ frames < rs.max_frame_credit \div 2
               \/ bytes < rs.max_byte_credit \div 2
    IN  /\ frames >= 0 /\ bytes >= 0
        /\ after.max_frame_credit \in
               {rs.max_frame_credit,
                Min(2 * rs.max_frame_credit, CHANNEL_MAX_FRAME_CREDIT)}
        /\ after.max_byte_credit \in
               {rs.max_byte_credit,
                Min(2 * rs.max_byte_credit, CHANNEL_MAX_BYTE_CREDIT)}
        /\ IF low
           THEN /\ Len(q2) = Len(q) + 1
                /\ SubSeq(q2, 1, Len(q)) = q
                /\ q2[Len(q2)].tag = "ChannelAdjust"
                /\ q2[Len(q2)].receiver_id = receivers[k].remote_id
                /\ q2[Len(q2)].frame_credit = after.max_frame_credit - frames
                /\ q2[Len(q2)].byte_credit = after.max_byte_credit - bytes
                /\ after.remaining_frame_credit = after.max_frame_credit
                /\ after.remaining_byte_credit = after.max_byte_credit
           ELSE /\ q2 = q
                /\ after.remaining_frame_credit = frames
                /\ after.remaining_byte_credit = bytes
                /\ after.max_frame_credit = rs.max_frame_credit
                /\ after.max_byte_credit = rs.max_byte_credit

CreditReplenishment ==
    [][\A k \in Keys : Popped(k) => PopReplenishes(k)]_vars

(* B's reader has popped frames both ways: a replenishment doubled the     *)
(* byte maximum, and a later pop left both remaining credits below the     *)
(* maxima without a ChannelAdjust.                                         *)
CreditReplenishmentWitness ==
    /\ receiver_shared[<<"B", 1>>].max_byte_credit > INITIAL_BYTE_CREDIT
    /\ receiver_shared[<<"B", 1>>].remaining_frame_credit
           < receiver_shared[<<"B", 1>>].max_frame_credit
    /\ receiver_shared[<<"B", 1>>].remaining_byte_credit
           < receiver_shared[<<"B", 1>>].max_byte_credit
    /\ \A i \in DOMAIN Outbound("B") : Outbound("B")[i].tag # "ChannelAdjust"

(***************************************************************************)
(* C32: on a sender the peer has not closed, poll_write first sends the    *)
(* staged chunk: as one ChannelData, and only if frame credit is left,     *)
(* debiting one frame and the payload length, which the byte credit        *)
(* covers.  If the chunk cannot be sent, or the byte credit is then below  *)
(* the write threshold, poll_write parks the waker and returns Pending     *)
(* without taking anything; otherwise it stages                            *)
(* min(remaining byte credit, buf.len()) bytes and returns that count.     *)
(***************************************************************************)
WritePath(k, len) ==
    LET ss == sender_shared[k]
        snd == senders[k]
        after == sender_shared'[k]
        q == frame_q[k[1]]
        q2 == frame_q'[k[1]]
        sent == snd.has_pending /\ ss.remaining_frame_credit > 0
        stuck == snd.has_pending /\ ss.remaining_frame_credit = 0
        credit == IF sent THEN ss.remaining_byte_credit - Len(snd.pending)
                  ELSE ss.remaining_byte_credit
    IN  /\ credit >= 0
        /\ after.remaining_byte_credit = credit
        /\ after.remaining_frame_credit
               = ss.remaining_frame_credit - (IF sent THEN 1 ELSE 0)
        /\ IF sent
           THEN /\ Len(q2) = Len(q) + 1
                /\ SubSeq(q2, 1, Len(q)) = q
                /\ q2[Len(q2)].tag = "ChannelData"
                /\ q2[Len(q2)].receiver_id = snd.remote_id
                /\ q2[Len(q2)].payload = snd.pending
           ELSE q2 = q
        /\ IF stuck
           THEN /\ senders'[k].result = "Pending"
                /\ after.waker
                /\ senders'[k].pending = snd.pending
                /\ senders'[k].written = snd.written
           ELSE IF credit < WRITE_THRESHOLD
           THEN /\ senders'[k].result = "Pending"
                /\ after.waker
                /\ ~senders'[k].has_pending
                /\ senders'[k].written = snd.written
           ELSE /\ senders'[k].result = "Ready"
                /\ senders'[k].has_pending
                /\ Len(senders'[k].pending) = Min(credit, len)
                /\ senders'[k].written = snd.written + Min(credit, len)

SenderWritePath ==
    /\ [](\A k \in DOMAIN sender_shared :
              /\ sender_shared[k].remaining_frame_credit >= 0
              /\ sender_shared[k].remaining_byte_credit >= 0)
    /\ [][\A k \in DOMAIN senders : \A len \in 0 .. WriteMaxBuf :
              (poll_write(k, len) /\ ~sender_shared[k].closed)
                  => WritePath(k, len)]_vars

(* The writer at A has staged and sent its whole byte credit, a two-byte   *)
(* chunk among it, and the next write, finding the credit below the write  *)
(* threshold, was refused with the waker parked.                           *)
SenderWritePathWitness ==
    /\ senders[<<"A", 1>>].result = "Pending"
    /\ ~senders[<<"A", 1>>].has_pending
    /\ sender_shared[<<"A", 1>>].waker
    /\ sender_shared[<<"A", 1>>].remaining_byte_credit = 0
    /\ senders[<<"A", 1>>].written = INITIAL_BYTE_CREDIT
    /\ \E i \in DOMAIN Outbound("A") :
           /\ Outbound("A")[i].tag = "ChannelData"
           /\ Len(Outbound("A")[i].payload) = 2
    /\ hist.bytes = WriteMaxBytes - 4

(***************************************************************************)
(* C33: dispatching ChannelClose for a known channel sets the closed flag  *)
(* of its sender-shared state (taking the waker) and changes nothing of    *)
(* its receiver-shared state, and a read of queued data then still         *)
(* delivers it; dispatching ChannelClosed sets the closed flag of the      *)
(* receiver-shared state (taking the waker) and changes nothing of the     *)
(* sender-shared state, and a write within credit is then still accepted.  *)
(***************************************************************************)
CloseDispatched(e) ==
    LET k == <<e, Arriving(e).receiver_id>>
    IN  /\ receiver_shared' = receiver_shared
        /\ receivers' = receivers
        /\ channels' = channels
        /\ frame_q' = frame_q
        /\ sender_shared' = [sender_shared EXCEPT ![k].closed = TRUE,
                                                  ![k].waker = FALSE]

ClosedDispatched(e) ==
    LET k == <<e, Arriving(e).receiver_id>>
    IN  /\ sender_shared' = sender_shared
        /\ senders' = senders
        /\ channels' = channels
        /\ frame_q' = frame_q
        /\ receiver_shared' = [receiver_shared EXCEPT ![k].closed = TRUE,
                                                      ![k].waker = FALSE]

HalfCloseIndependence ==
    [][/\ \A e \in Endpoints :
              /\ (Receive(e) /\ Arriving(e).tag = "ChannelClose"
                      /\ Known(e, Arriving(e).receiver_id)) => CloseDispatched(e)
              /\ (Receive(e) /\ Arriving(e).tag = "ChannelClosed"
                      /\ Known(e, Arriving(e).receiver_id)) => ClosedDispatched(e)
       /\ \A k \in DOMAIN receivers : \A len \in 1 .. MaxBuf, t \in Timings :
              (/\ sender_shared[k].closed
               /\ ~receiver_shared[k].closed
               /\ receivers[k].has_pending \/ receiver_shared[k].buffer # <<>>
               /\ poll_read(k, len, t))
                  => /\ receivers'[k].result = "Ready"
                     /\ Len(receivers'[k].log) > Len(receivers[k].log)
       /\ \A k \in DOMAIN senders : \A len \in 1 .. MaxBuf :
              (/\ receiver_shared[k].closed
               /\ ~sender_shared[k].closed
               /\ ~senders[k].has_pending
               /\ sender_shared[k].remaining_byte_credit >= WRITE_THRESHOLD
               /\ poll_write(k, len))
                  => /\ senders'[k].result = "Ready"
                     /\ senders'[k].written > senders[k].written]_vars

(* B dispatched A's ChannelClose and then a ChannelData of A, and B's      *)
(* reader has delivered that data.                                         *)
HalfCloseIndependenceWitness ==
    /\ sender_shared[<<"B", 1>>].closed
    /\ ~receiver_shared[<<"B", 1>>].closed
    /\ conn["B"].frames_received = conn["A"].frames_received + 2
    /\ conn["B"].last.tag = "ChannelData"
    /\ receivers[<<"B", 1>>].result = "Ready"
    /\ receivers[<<"B", 1>>].log # <<>>

(***************************************************************************)
(* C34: dropping a Sender enqueues nothing, whether or not a chunk is      *)
(* staged; dropping a Receiver enqueues exactly one ChannelClose with the  *)
(* channel's remote id and an empty reason, also after the peer's          *)
(* ChannelClosed was dispatched.                                           *)
(***************************************************************************)
DropFrames ==
    [][\A k \in Keys :
           /\ DropSender(k) => frame_q' = frame_q /\ enq' = enq
           /\ DropReceiver(k) =>
                  LET q == frame_q[k[1]]
                      q2 == frame_q'[k[1]]
                  IN  /\ Len(q2) = Len(q) + 1
                      /\ SubSeq(q2, 1, Len(q)) = q
                      /\ q2[Len(q2)].tag = "ChannelClose"
                      /\ q2[Len(q2)].receiver_id = channels[k[1]][k[2]].remote_id
                      /\ q2[Len(q2)].payload = <<>>
                      /\ frame_q'[Peer(k[1])] = frame_q[Peer(k[1])]]_vars

(* A dropped its Sender with a chunk staged and without closing it: no     *)
(* ChannelClosed of A exists.  B dropped its Receiver and its ChannelClose *)
(* has gone out.                                                           *)
DropFramesWitness ==
    /\ ~senders[<<"A", 1>>].alive
    /\ senders[<<"A", 1>>].has_pending
    /\ hist.closes = MaxCloses
    /\ ~receivers[<<"B", 1>>].alive
    /\ receivers[<<"B", 1>>].log # <<>>
    /\ \E i \in DOMAIN transport["B"] : transport["B"][i].tag = "ChannelClose"
    /\ \A i \in DOMAIN Outbound("A") : Outbound("A")[i].tag # "ChannelClosed"

(***************************************************************************)
(* C35: a poll_close on a sender the peer has not closed sends the staged  *)
(* chunk, if any, and then enqueues one ChannelClosed with empty reason,   *)
(* directly behind that ChannelData; it is Pending and enqueues nothing    *)
(* only when the chunk cannot be sent.  It leaves the closed flag of the   *)
(* sender clear, whatever closes came before, so a later write proceeds as *)
(* on a sender that was never closed.                                      *)
(***************************************************************************)
ClosedSent(k) ==
    \/ \E i \in DOMAIN Outbound(k[1]) : Outbound(k[1])[i].tag = "ChannelClosed"
    \/ receiver_shared[<<Peer(k[1]), senders[k].remote_id>>].closed

CloseFrames(k) ==
    LET snd == senders[k]
        q == frame_q[k[1]]
        q2 == frame_q'[k[1]]
        data == IF snd.has_pending THEN 1 ELSE 0
    IN  IF snd.has_pending /\ sender_shared[k].remaining_frame_credit = 0
        THEN /\ q2 = q
             /\ senders'[k].result = "Pending"
             /\ senders'[k].has_pending
        ELSE /\ Len(q2) = Len(q) + data + 1
             /\ SubSeq(q2, 1, Len(q)) = q
             /\ snd.has_pending =>
                    /\ q2[Len(q) + 1].tag = "ChannelData"
                    /\ q2[Len(q) + 1].payload = snd.pending
             /\ q2[Len(q2)].tag = "ChannelClosed"
             /\ q2[Len(q2)].receiver_id = snd.remote_id
             /\ q2[Len(q2)].payload = <<>>
             /\ senders'[k].result = "Ready"
             /\ ~senders'[k].has_pending

CloseKeepsOpen ==
    [][\A k \in DOMAIN senders :
           /\ (poll_close(k) /\ ~sender_shared[k].closed)
                  => CloseFrames(k) /\ ~sender_shared'[k].closed
           /\ \A len \in 1 .. MaxBuf :
                  (poll_write(k, len) /\ ClosedSent(k) /\ ~sender_shared[k].closed)
                      => WritePath(k, len)]_vars

(* A closed its Sender, then wrote and closed again: a ChannelData of A    *)
(* lies between two of its ChannelClosed.                                  *)
CloseKeepsOpenWitness ==
    \E i, j, l \in DOMAIN Outbound("A") :
        /\ i < j /\ j < l
        /\ Outbound("A")[i].tag = "ChannelClosed"
        /\ Outbound("A")[j].tag = "ChannelData"
        /\ Outbound("A")[l].tag = "ChannelClosed"

(***************************************************************************)
(* C36: dispatching a ChannelAccept whose receiver id has no pending open  *)
(* leaves the channel map as it was: no entry is added and the handle of   *)
(* an established channel, with the shared state it points to, is kept.    *)
(***************************************************************************)
AcceptViolationKeepsMap ==
    [][\A e \in Endpoints :
           (/\ transport[Peer(e)] # <<>>
            /\ Receive(e)
            /\ Arriving(e).tag = "ChannelAccept"
            /\ Arriving(e).receiver_id \notin conn[e].pending_requests)
               => /\ conn'[e].result = "ProtocolViolation"
                  /\ channels'[e] = channels[e]
                  /\ sender_shared' = sender_shared
                  /\ receiver_shared' = receiver_shared]_vars

(***************************************************************************)
(* C37: whatever the peer sends, the frames that passed the credit check   *)
(* and were queued can be consumed without a remaining credit going below  *)
(* zero, and the payload bytes held in a receive queue never exceed the    *)
(* receiver's max_byte_credit.                                             *)
(***************************************************************************)
Buffered(rs) == SumSeq([i \in 1 .. Len(rs.buffer) |-> Len(rs.buffer[i].payload)])

NoCreditUnderflow ==
    /\ [](\A k \in DOMAIN receiver_shared :
              conn[k[1]].result # "ProtocolViolation"
                  => Buffered(receiver_shared[k]) <= receiver_shared[k].max_byte_credit)
    /\ [][\A k \in Keys :
              (Popped(k) /\ conn[k[1]].result # "ProtocolViolation")
                  => /\ receiver_shared[k].remaining_frame_credit >= 1
                     /\ receiver_shared[k].remaining_byte_credit
                            >= Len(Head(receiver_shared[k].buffer).payload)]_vars

(***************************************************************************)
(* C38: between two endpoints running this code the assertion of           *)
(* poll_send_chunk never fails: under every interleaving of writes,        *)
(* flushes, reads and ChannelAdjust dispatches a staged chunk is at most   *)
(* the sender's remaining byte credit, no poll of the Sender ends in the   *)
(* assertion's panic, and the sender's remaining credits stay within the   *)
(* channel maxima, so the additions of the grants cannot overflow.         *)
(***************************************************************************)
SenderCreditSound ==
    \A k \in DOMAIN senders :
        /\ senders[k].has_pending
               => Len(senders[k].pending) <= sender_shared[k].remaining_byte_credit
        /\ senders[k].result # "Panic"
        /\ sender_shared[k].remaining_frame_credit >= 0
        /\ sender_shared[k].remaining_byte_credit >= 0
        /\ sender_shared[k].remaining_frame_credit <= CHANNEL_MAX_FRAME_CREDIT
        /\ sender_shared[k].remaining_byte_credit <= CHANNEL_MAX_BYTE_CREDIT

(* The grant of a doubled window was added to the sender's credits: the    *)
(* Sender holds more than the initial byte credit after it wrote more than *)
(* that credit, with nothing staged and its last poll ready.               *)
SenderCreditSoundWitness ==
    /\ <<"A", 1>> \in DOMAIN senders
    /\ sender_shared[<<"A", 1>>].remaining_byte_credit > INITIAL_BYTE_CREDIT
    /\ senders[<<"A", 1>>].written > INITIAL_BYTE_CREDIT
    /\ ~senders[<<"A", 1>>].has_pending
    /\ senders[<<"A", 1>>].result = "Ready"

(***************************************************************************)
(* C39: a poll_read with a non-empty buffer is ready with 0 bytes only at  *)
(* the end of the stream: while the channel is open (the receiving half    *)
(* not closed by the peer, or frames still queued) neither a zero-length   *)
(* write on the peer's Sender nor an empty ChannelData makes the last      *)
(* poll_read report 0 bytes.                                               *)
(***************************************************************************)
ZeroReadOnlyAtEnd ==
    \A k \in DOMAIN receivers :
        receivers[k].result = "Ready0" => EndOfChunks(receiver_shared[k])

(***************************************************************************)
(* C40: once ChannelClose was dispatched to a Sender (its closed flag is   *)
(* set), no step enqueues a ChannelData or ChannelClosed frame for its     *)
(* channel: a chunk staged before the close stays staged, and poll_close   *)
(* ends with BrokenPipe and enqueues nothing.                              *)
(***************************************************************************)
SenderFrame(f, remote_id) ==
    /\ f.tag \in {"ChannelData", "ChannelClosed"}
    /\ f.receiver_id = remote_id

ClosedSenderSilent ==
    [][\A k \in DOMAIN senders :
           sender_shared[k].closed =>
               /\ \A i \in DOMAIN frame_q'[k[1]] :
                      frame_q'[k[1]][i].n > enq[k[1]]
                          => ~SenderFrame(frame_q'[k[1]][i], senders[k].remote_id)
               /\ senders[k].has_pending
                      => /\ senders'[k].has_pending
                         /\ senders'[k].pending = senders[k].pending
               /\ poll_close(k)
                      => /\ senders'[k].result = "BrokenPipe"
                         /\ frame_q' = frame_q
                         /\ enq' = enq]_vars

(* A chunk was staged with full credit, the peer's ChannelClose was        *)
(* dispatched, and a poll_close then failed: every byte ever written is    *)
(* still staged and no ChannelClosed has left the endpoint.                *)
ClosedSenderSilentWitness ==
    \E k \in DOMAIN senders :
        /\ sender_shared[k].closed
        /\ senders[k].has_pending
        /\ senders[k].result = "BrokenPipe"
        /\ hist.closes < MaxCloses
        /\ senders[k].written = Len(senders[k].pending)
        /\ ~ClosedSent(k)

====
